---- MODULE Spec2Model ----
(***************************************************************************)
(* Model of the ASCII conversion library (src/src/lib/ascii.ts) of the     *)
(* ascii-webcam-mirror repository.                                         *)
(*                                                                         *)
(* The library computes with ECMAScript Numbers, i.e. IEEE 754 binary64    *)
(* values.  Several results are floors of quotients, where the rounding of *)
(* an intermediate quotient decides the result (Math.floor(9/(9/14*2)) is  *)
(* 6, not 7), so the model computes every /, * and + of the source in      *)
(* binary64, round to nearest, ties to even.  A Number is a record         *)
(*   [kind |-> "fin", m |-> mantissa, e |-> exponent]   (value m * 2^e)    *)
(* or the records Infinity and NaN.  Only non-negative values occur.  The  *)
(* mantissa is a natural number of at most 53 bits, kept odd (canonical),  *)
(* and written as a little-endian sequence of 14-bit limbs because TLC's   *)
(* integers have 32 bits.                                                  *)
(***************************************************************************)
EXTENDS Integers, Sequences, FiniteSets, TLC

\* ------------------------------------------------------------------------
\* Natural numbers of arbitrary size (little-endian limbs, <<>> is 0)
\* ------------------------------------------------------------------------
LimbBits == 14
LimbBase == 16384
MantBits == 53

RECURSIVE Pow2(_)
Pow2(n) == IF n = 0 THEN 1 ELSE 2 * Pow2(n - 1)

RECURSIVE BitLenInt(_)
BitLenInt(n) == IF n = 0 THEN 0 ELSE 1 + BitLenInt(n \div 2)

RECURSIVE LowZeroBits(_)
LowZeroBits(n) == IF n % 2 = 1 THEN 0 ELSE 1 + LowZeroBits(n \div 2)

RECURSIVE BigTrim(_)
BigTrim(a) ==
  IF a = <<>> THEN <<>>
  ELSE IF a[Len(a)] = 0 THEN BigTrim(SubSeq(a, 1, Len(a) - 1)) ELSE a

RECURSIVE BigFromInt(_)
BigFromInt(n) ==
  IF n = 0 THEN <<>> ELSE <<n % LimbBase>> \o BigFromInt(n \div LimbBase)

RECURSIVE BigToInt(_)
BigToInt(a) == IF a = <<>> THEN 0 ELSE Head(a) + LimbBase * BigToInt(Tail(a))

BigRest(a) == IF a = <<>> THEN <<>> ELSE Tail(a)
BigLow(a) == IF a = <<>> THEN 0 ELSE Head(a)

RECURSIVE BigAddC(_, _, _)
BigAddC(a, b, c) ==
  IF a = <<>> /\ b = <<>> THEN (IF c = 0 THEN <<>> ELSE <<c>>)
  ELSE LET x == BigLow(a) + BigLow(b) + c
       IN  <<x % LimbBase>> \o BigAddC(BigRest(a), BigRest(b), x \div LimbBase)
BigAdd(a, b) == BigAddC(a, b, 0)

\* a - b for a >= b
RECURSIVE BigSubB(_, _, _)
BigSubB(a, b, br) ==
  IF a = <<>> THEN <<>>
  ELSE LET x == Head(a) - BigLow(b) - br
       IN  <<x % LimbBase>> \o BigSubB(Tail(a), BigRest(b), IF x < 0 THEN 1 ELSE 0)
BigSub(a, b) == BigTrim(BigSubB(a, b, 0))

RECURSIVE BigCmpAt(_, _, _)
BigCmpAt(a, b, i) ==
  IF i = 0 THEN 0
  ELSE IF a[i] > b[i] THEN 1
  ELSE IF a[i] < b[i] THEN -1
  ELSE BigCmpAt(a, b, i - 1)
BigCmp(a, b) ==
  IF Len(a) > Len(b) THEN 1
  ELSE IF Len(a) < Len(b) THEN -1
  ELSE BigCmpAt(a, b, Len(a))

\* a * k + c for 0 <= k, c < LimbBase
RECURSIVE BigMulSmallC(_, _, _)
BigMulSmallC(a, k, c) ==
  IF a = <<>> THEN BigFromInt(c)
  ELSE LET x == Head(a) * k + c
       IN  <<x % LimbBase>> \o BigMulSmallC(Tail(a), k, x \div LimbBase)
BigMulSmall(a, k) == BigTrim(BigMulSmallC(a, k, 0))

RECURSIVE BigMul(_, _)
BigMul(a, b) ==
  IF a = <<>> \/ b = <<>> THEN <<>>
  ELSE LET r == BigMul(Tail(a), b)
       IN  BigAdd(BigMulSmall(b, Head(a)), IF r = <<>> THEN r ELSE <<0>> \o r)

BigShl(a, n) ==
  IF a = <<>> THEN <<>>
  ELSE [i \in 1..(n \div LimbBits) |-> 0] \o BigMulSmall(a, Pow2(n % LimbBits))

BigShr(a, n) ==
  LET drop == n \div LimbBits
      k == Pow2(n % LimbBits)
      b == IF drop >= Len(a) THEN <<>> ELSE SubSeq(a, drop + 1, Len(a))
  IN  BigTrim([i \in 1..Len(b) |->
                 (b[i] \div k)
                 + (IF i < Len(b) THEN (b[i + 1] % k) * (LimbBase \div k) ELSE 0)])

\* bit i of a (bit 0 is the lowest)
BigBit(a, i) ==
  IF i \div LimbBits >= Len(a) THEN 0
  ELSE (a[i \div LimbBits + 1] \div Pow2(i % LimbBits)) % 2

\* the n lowest bits of a are all 0
BigLowZero(a, n) ==
  /\ \A i \in 1..(n \div LimbBits) : i > Len(a) \/ a[i] = 0
  /\ \/ n \div LimbBits >= Len(a)
     \/ a[n \div LimbBits + 1] % Pow2(n % LimbBits) = 0

BigBitLen(a) ==
  IF a = <<>> THEN 0 ELSE LimbBits * (Len(a) - 1) + BitLenInt(a[Len(a)])

RECURSIVE LowZeroLimbs(_)
LowZeroLimbs(a) ==
  IF a = <<>> \/ Head(a) # 0 THEN 0 ELSE 1 + LowZeroLimbs(Tail(a))

\* ------------------------------------------------------------------------
\* ECMAScript Number: IEEE 754 binary64, non-negative values
\* ------------------------------------------------------------------------
Zero == [kind |-> "fin", m |-> <<>>, e |-> 0]
Infinity == [kind |-> "inf", m |-> <<>>, e |-> 0]
NaN == [kind |-> "nan", m |-> <<>>, e |-> 0]

IsZero(x) == x.kind = "fin" /\ x.m = <<>>
IsFinite(x) == x.kind = "fin"

\* the Number m * 2^e for a mantissa of at most MantBits bits
Canon(m, e) ==
  IF m = <<>> THEN Zero
  ELSE LET z == LowZeroLimbs(m)
           b == SubSeq(m, z + 1, Len(m))
           t == LowZeroBits(b[1])
       IN  [kind |-> "fin", m |-> BigShr(b, t), e |-> e + LimbBits * z + t]

\* the Number nearest to m * 2^e (plus a nonzero fraction of 2^e below it when
\* sticky), ties to the even mantissa
RoundToDouble(m, e, sticky) ==
  LET L == BigBitLen(m) IN
  IF L <= MantBits THEN Canon(m, e)
  ELSE LET sh == L - MantBits
           kept == BigShr(m, sh)
           half == BigBit(m, sh - 1) = 1
           rest == sticky \/ ~BigLowZero(m, sh - 1)
           up == half /\ (rest \/ BigBit(kept, 0) = 1)
       IN  Canon(IF up THEN BigAdd(kept, <<1>>) ELSE kept, e + sh)

\* the Number of a natural number below 2^31
Num(n) == Canon(BigFromInt(n), 0)

\* restoring division, one quotient bit per step
RECURSIVE DivLoop(_, _, _)
DivLoop(st, d, n) ==
  IF n = 0 THEN st
  ELSE IF st.rem = <<>> THEN [rem |-> <<>>, q |-> BigShl(st.q, n)]
  ELSE LET ge == BigCmp(st.rem, d) >= 0
           r1 == IF ge THEN BigSub(st.rem, d) ELSE st.rem
       IN  DivLoop([rem |-> BigMulSmall(r1, 2),
                    q   |-> BigTrim(BigMulSmallC(st.q, 2, IF ge THEN 1 ELSE 0))],
                   d, n - 1)

\* long division of a by b (0 < a, b < LimbBase), one quotient limb per step:
\* after n steps q is floor(a * LimbBase^n / b) and rem the remainder
RECURSIVE DivSmall(_, _, _)
DivSmall(st, b, n) ==
  IF n = 0 THEN st
  ELSE IF st.rem = 0 THEN [rem |-> 0, q |-> [i \in 1..n |-> 0] \o st.q]
  ELSE DivSmall([rem |-> (st.rem * LimbBase) % b,
                 q   |-> <<(st.rem * LimbBase) \div b>> \o st.q], b, n - 1)

\* x / y
NumDiv(x, y) ==
  IF x.kind = "nan" \/ y.kind = "nan" THEN NaN
  ELSE IF x.kind = "inf" THEN (IF y.kind = "inf" THEN NaN ELSE Infinity)
  ELSE IF y.kind = "inf" THEN Zero
  ELSE IF IsZero(y) THEN (IF IsZero(x) THEN NaN ELSE Infinity)
  ELSE IF IsZero(x) THEN Zero
  ELSE IF Len(x.m) = 1 /\ Len(y.m) = 1
  THEN LET a == x.m[1]
           b == y.m[1]
           r == DivSmall([rem |-> a % b, q |-> BigFromInt(a \div b)], b, 5)
       IN  RoundToDouble(BigTrim(r.q), x.e - y.e - 5 * LimbBits, r.rem # 0)
  ELSE LET Lx == BigBitLen(x.m)
           Ly == BigBitLen(y.m)
           xs == IF Ly > Lx THEN BigShl(x.m, Ly - Lx) ELSE x.m
           ds == IF Lx > Ly THEN BigShl(y.m, Lx - Ly) ELSE y.m
           r  == DivLoop([rem |-> xs, q |-> <<>>], ds, MantBits + 3)
       IN  RoundToDouble(r.q, x.e - y.e + (Lx - Ly) - (MantBits + 2), r.rem # <<>>)

\* x * y
NumMul(x, y) ==
  IF x.kind = "nan" \/ y.kind = "nan" THEN NaN
  ELSE IF x.kind = "inf" \/ y.kind = "inf"
       THEN (IF IsZero(x) \/ IsZero(y) THEN NaN ELSE Infinity)
  ELSE RoundToDouble(BigMul(x.m, y.m), x.e + y.e, FALSE)

\* x + y
NumAdd(x, y) ==
  IF x.kind = "nan" \/ y.kind = "nan" THEN NaN
  ELSE IF x.kind = "inf" \/ y.kind = "inf" THEN Infinity
  ELSE IF IsZero(x) THEN y
  ELSE IF IsZero(y) THEN x
  ELSE LET lo == IF x.e < y.e THEN x.e ELSE y.e
       IN  RoundToDouble(BigAdd(BigShl(x.m, x.e - lo), BigShl(y.m, y.e - lo)),
                         lo, FALSE)

\* the integer part of a finite Number below 2^31, as an integer
IntPart(x) ==
  IF x.e >= 0 THEN BigToInt(BigShl(x.m, x.e)) ELSE BigToInt(BigShr(x.m, 0 - x.e))

\* Math.floor of a finite Number
MathFloor(x) == IntPart(x)

\* Math.round of a finite Number: the nearest integer, a half rounds up
MathRound(x) ==
  IF x.e < 0 /\ BigBit(x.m, (0 - x.e) - 1) = 1 THEN IntPart(x) + 1 ELSE IntPart(x)

\* ------------------------------------------------------------------------
\* src/src/lib/ascii.ts: character sets and the brightness lookup table
\* ------------------------------------------------------------------------
\* A string is the sequence of its characters; the four shaded block glyphs
\* of CHARSETS.blocks are written by their code points.
CHARSETS ==
  [simple   |-> <<" ", ".", ":", "-", "=", "+", "*", "#", "%", "@">>,
   detailed |-> <<" ", ".", "'", "^", "\"", ",", ":", ";", "I", "l",
                "!", "i", ">", "<", "~", "+", "_", "-", "?", "]",
                "[", "}", "{", "1", ")", "(", "|", "\\", "/", "*",
                "t", "f", "j", "r", "x", "n", "u", "v", "c", "z",
                "X", "Y", "U", "J", "C", "L", "Q", "0", "O", "Z",
                "m", "w", "q", "p", "d", "b", "k", "h", "a", "o",
                "*", "#", "M", "W", "&", "8", "%", "B", "@", "$">>,
   blocks   |-> <<" ", "U+2591", "U+2592", "U+2593", "U+2588">>]

CHAR_Y_PER_X == 2

\* charset[i] of the source: the character at 0-based position i, or
\* undefined outside the string
CharAt(cs, i) == IF i \in 0..(Len(cs) - 1) THEN cs[i + 1] ELSE "undefined"

\* charIndexAt with brightness scaled by 1/256 instead of 1/255
charIndexAtMutDivisor(brightness, charCount, inv) ==
  LET charIndex ==
        MathFloor(NumMul(NumDiv(Num(brightness), Num(256)), Num(charCount - 1)))
  IN  IF inv THEN charCount - 1 - charIndex ELSE charIndex

\* charIndexAt with the mirror taken about charCount instead of charCount - 1
charIndexAtMutMirror(brightness, charCount, inv) ==
  LET charIndex ==
        MathFloor(NumMul(NumDiv(Num(brightness), Num(255)), Num(charCount - 1)))
  IN  IF inv THEN charCount - charIndex ELSE charIndex

\* charIndexAt with the test of the invert flag negated
charIndexAtMutFlag(brightness, charCount, inv) ==
  LET charIndex ==
        MathFloor(NumMul(NumDiv(Num(brightness), Num(255)), Num(charCount - 1)))
  IN  IF ~inv THEN charCount - 1 - charIndex ELSE charIndex

\* charIndexAt with the fraction scaled by charCount instead of charCount - 1
charIndexAtMutScale(brightness, charCount, inv) ==
  LET charIndex ==
        MathFloor(NumMul(NumDiv(Num(brightness), Num(255)), Num(charCount)))
  IN  IF inv THEN charCount - 1 - charIndex ELSE charIndex

\* the value of charIndex at line 66, for one pass of the loop of lines 59-67
charIndexAt(brightness, charCount, inv) ==
  LET charIndex ==
        MathFloor(NumMul(NumDiv(Num(brightness), Num(255)), Num(charCount - 1)))
  IN  IF inv THEN charCount - 1 - charIndex ELSE charIndex

\* createBrightnessLUT without the check of lines 52-54
createBrightnessLUTMutNoCheck(cs, inv) ==
  [outcome   |-> "returned",
   lut       |-> [brightness \in 0..255 |->
                    IF Len(cs) = 0 THEN "undefined"
                    ELSE CharAt(cs, charIndexAt(brightness, Len(cs), inv))],
   charIndex |-> [brightness \in 0..255 |->
                    IF Len(cs) = 0 THEN 0
                    ELSE charIndexAt(brightness, Len(cs), inv)]]

\* createBrightnessLUT(charset, invert): the outcome ("returned" with the
\* table, or "threw" with none), and as a record of the run the value of
\* charIndex at line 66 for each brightness
createBrightnessLUT(cs, inv) ==
  IF Len(cs) = 0
  THEN [outcome |-> "threw", lut |-> <<>>, charIndex |-> <<>>]
  ELSE [outcome   |-> "returned",
        lut       |-> [brightness \in 0..255 |->
                         CharAt(cs, charIndexAt(brightness, Len(cs), inv))],
        charIndex |-> [brightness \in 0..255 |->
                         charIndexAt(brightness, Len(cs), inv)]]

\* ------------------------------------------------------------------------
\* src/src/lib/ascii.ts: calculateGridDimensions
\* ------------------------------------------------------------------------
\* Math.floor and Math.round as Numbers (Infinity and NaN are returned as
\* they are)
NumFloor(x) == IF IsFinite(x) THEN Num(MathFloor(x)) ELSE x
NumRound(x) == IF IsFinite(x) THEN Num(MathRound(x)) ELSE x

\* calculateGridDimensions with the aspect constant left out
calculateGridDimensionsMutAspect(videoWidth, videoHeight, cols) ==
  [cols |-> cols,
   rows |-> NumFloor(NumDiv(Num(videoHeight), NumDiv(Num(videoWidth), Num(cols))))]

\* calculateGridDimensions(videoWidth, videoHeight, cols): cols is an
\* integer, rows the Number computed at line 84
calculateGridDimensions(videoWidth, videoHeight, cols) ==
  [cols |-> cols,
   rows |-> NumFloor(NumDiv(Num(videoHeight),
                            NumMul(NumDiv(Num(videoWidth), Num(cols)),
                                   Num(CHAR_Y_PER_X))))]

\* ------------------------------------------------------------------------
\* src/src/lib/ascii.ts: calculateLuminance and imageDataToAscii
\* ------------------------------------------------------------------------
\* LUMINANCE_WEIGHTS: the Numbers the decimal literals denote
LUMINANCE_WEIGHTS ==
  [R |-> NumDiv(Num(2126), Num(10000)),
   G |-> NumDiv(Num(7152), Num(10000)),
   B |-> NumDiv(Num(722), Num(10000))]

\* calculateLuminance without the Math.round of line 38
calculateLuminanceMutNoRound(r, g, b) ==
  NumAdd(NumAdd(NumMul(r, LUMINANCE_WEIGHTS.R),
                NumMul(g, LUMINANCE_WEIGHTS.G)),
         NumMul(b, LUMINANCE_WEIGHTS.B))

\* calculateLuminance with the green weight mistyped as 0.7512
calculateLuminanceMutWeight(r, g, b) ==
  NumRound(NumAdd(NumAdd(NumMul(r, LUMINANCE_WEIGHTS.R),
                         NumMul(g, NumDiv(Num(7512), Num(10000)))),
                  NumMul(b, LUMINANCE_WEIGHTS.B)))

\* calculateLuminance with the weights of the red and the blue channel
\* exchanged
calculateLuminanceMutSwap(r, g, b) ==
  NumRound(NumAdd(NumAdd(NumMul(r, LUMINANCE_WEIGHTS.B),
                         NumMul(g, LUMINANCE_WEIGHTS.G)),
                  NumMul(b, LUMINANCE_WEIGHTS.R)))

\* calculateLuminance(r, g, b) for Numbers r, g, b
calculateLuminance(r, g, b) ==
  NumRound(NumAdd(NumAdd(NumMul(r, LUMINANCE_WEIGHTS.R),
                         NumMul(g, LUMINANCE_WEIGHTS.G)),
                  NumMul(b, LUMINANCE_WEIGHTS.B)))

\* lut[n] of the source for a Number n: the entry, or undefined when n is no
\* index of the table
LutAt(lut, n) ==
  IF IsFinite(n) /\ n.e >= 0 /\ MathFloor(n) \in DOMAIN lut
  THEN lut[MathFloor(n)] ELSE "undefined"

\* s += char: a glyph is one character, the value undefined is appended as
\* the nine characters of its name
Undefined9 == <<"u", "n", "d", "e", "f", "i", "n", "e", "d">>
AppendChar(s, char) ==
  IF char = "undefined" THEN s \o Undefined9 ELSE Append(s, char)

\* ${Math.round(x)} in the template of line 146
ShowRounded(x) == IF IsFinite(x) THEN ToString(MathRound(x)) ELSE "NaN"

\* SumChannel reading one position too far: green for red, blue for green,
\* alpha for blue
RECURSIVE SumChannelMutShift(_, _, _)
SumChannelMutShift(data, idxs, off) ==
  IF idxs = <<>> THEN 0
  ELSE data[Head(idxs) + off + 2] + SumChannelMutShift(data, Tail(idxs), off)

RECURSIVE SumChannel(_, _, _)
SumChannel(data, idxs, off) ==
  IF idxs = <<>> THEN 0
  ELSE data[Head(idxs) + off + 1] + SumChannel(data, Tail(idxs), off)

\* lines 140-150, the end of the loop body, for the channel averages of the
\* cell and the brightness that line 140 computes from them: the glyph
\* appended and the color assigned to rowColor (assigns is FALSE when line
\* 146 is not reached; brightness is NaN when line 140 is not reached)
CellOfBrightness(lut, colorMode, rect, pixelCount, index, avgR, avgG, avgB, brightness) ==
  [startX |-> rect.startX, endX |-> rect.endX,
   startY |-> rect.startY, endY |-> rect.endY,
   pixelCount |-> pixelCount,
   index |-> index,
   brightness |-> IF pixelCount > 0 THEN brightness ELSE NaN,
   char |-> IF pixelCount > 0 THEN LutAt(lut, brightness) ELSE LutAt(lut, Zero),
   assigns |-> pixelCount > 0 /\ colorMode,
   color |-> IF pixelCount > 0 /\ colorMode
             THEN "rgb(" \o ShowRounded(avgR) \o ", " \o ShowRounded(avgG)
                  \o ", " \o ShowRounded(avgB) \o ")"
             ELSE ""]

\* CellOfAverages with the else branch of line 149 appending a space
\* instead of lut[0]
CellOfAveragesMutSpace(lut, colorMode, rect, pixelCount, index, avgR, avgG, avgB) ==
  [CellOfBrightness(lut, colorMode, rect, pixelCount, index, avgR, avgG, avgB,
                    calculateLuminance(avgR, avgG, avgB))
     EXCEPT !.char = IF pixelCount > 0 THEN @ ELSE " "]

\* lines 135-150 for the channel averages of the cell
CellOfAverages(lut, colorMode, rect, pixelCount, index, avgR, avgG, avgB) ==
  CellOfBrightness(lut, colorMode, rect, pixelCount, index, avgR, avgG, avgB,
                   calculateLuminance(avgR, avgG, avgB))

\* lines 125-139 for the rectangle of the cell: the pixels visited, their
\* channel totals (NaN when a visited position lies outside data) and the
\* averages
CellOfRect(imageData, lut, colorMode, rect) ==
  LET nx == IF rect.endX > rect.startX THEN rect.endX - rect.startX ELSE 0
      ny == IF rect.endY > rect.startY THEN rect.endY - rect.startY ELSE 0
      pixelCount == nx * ny
      index == [k \in 1..pixelCount |->
                  ((rect.startY + ((k - 1) \div nx)) * imageData.width
                   + rect.startX + ((k - 1) % nx)) * 4]
      inData == \A k \in 1..pixelCount : index[k] + 2 < Len(imageData.data)
      total == [off \in 0..2 |->
                  IF inData THEN SumChannel(imageData.data, index, off) ELSE -1]
      avg(t) == NumDiv(IF t < 0 THEN NaN ELSE Num(t), Num(pixelCount))
  IN  CellOfAverages(lut, colorMode, rect, pixelCount, index,
                     avg(total[0]), avg(total[1]), avg(total[2]))

\* Cell with the rectangle one pixel column too wide
CellMutWide(imageData, lut, colorMode, cellWidth, cellHeight, row, col) ==
  CellOfRect(imageData, lut, colorMode,
             [startX |-> MathFloor(NumMul(Num(col), cellWidth)),
              endX   |-> MathFloor(NumMul(Num(col + 1), cellWidth)) + 1,
              startY |-> MathFloor(NumMul(Num(row), cellHeight)),
              endY   |-> MathFloor(NumMul(Num(row + 1), cellHeight))])

\* one pass of the loop body of lines 116-150 for the cell (row, col): the
\* rectangle of lines 120-123, then the pixels in it
Cell(imageData, lut, colorMode, cellWidth, cellHeight, row, col) ==
  CellOfRect(imageData, lut, colorMode,
             [startX |-> MathFloor(NumMul(Num(col), cellWidth)),
              endX   |-> MathFloor(NumMul(Num(col + 1), cellWidth)),
              startY |-> MathFloor(NumMul(Num(row), cellHeight)),
              endY   |-> MathFloor(NumMul(Num(row + 1), cellHeight))])

\* ColStep without the else branch of lines 148-150: a cell without pixels
\* appends nothing
ColStepMutNoDefault(acc, c) ==
  [rowString |-> IF c.pixelCount > 0 THEN AppendChar(acc.rowString, c.char)
                 ELSE acc.rowString,
   rowColor  |-> IF c.assigns THEN c.color ELSE acc.rowColor,
   cells     |-> Append(acc.cells, c)]

\* what one pass of the column loop does with the cell c: rowString,
\* rowColor and the cells passed
ColStep(acc, c) ==
  [rowString |-> AppendChar(acc.rowString, c.char),
   rowColor  |-> IF c.assigns THEN c.color ELSE acc.rowColor,
   cells     |-> Append(acc.cells, c)]

\* the loop of lines 115-151 for one row, from column col on; acc holds
\* what the col passes before have left
RECURSIVE RowLoop(_, _, _, _, _, _, _, _, _)
RowLoop(imageData, cols, lut, colorMode, cellWidth, cellHeight, row, col, acc) ==
  IF Len(acc.cells) = col /\ col >= cols THEN acc
  ELSE RowLoop(imageData, cols, lut, colorMode, cellWidth, cellHeight, row,
               col + 1,
               ColStep(acc, Cell(imageData, lut, colorMode, cellWidth,
                                 cellHeight, row, col)))

\* RowStep leaving out a row that has no characters
RowStepMutSkipEmpty(acc, r, colorMode) ==
  IF r.rowString = <<>> THEN acc
  ELSE [ascii  |-> acc.ascii \o r.rowString \o <<"\n">>,
        colors |-> IF colorMode THEN Append(acc.colors, r.rowColor)
                   ELSE acc.colors,
        cells  |-> Append(acc.cells, r.cells)]

\* lines 153-156 for the finished row r: ascii, colors and the cells passed
RowStep(acc, r, colorMode) ==
  [ascii  |-> acc.ascii \o r.rowString \o <<"\n">>,
   colors |-> IF colorMode THEN Append(acc.colors, r.rowColor) ELSE acc.colors,
   cells  |-> Append(acc.cells, r.cells)]

\* the loop of lines 111-157, from row row on
RECURSIVE RowsLoop(_, _, _, _, _, _, _, _, _)
RowsLoop(imageData, cols, rows, lut, colorMode, cellWidth, cellHeight, row, acc) ==
  IF row >= rows THEN acc
  ELSE RowsLoop(imageData, cols, rows, lut, colorMode, cellWidth, cellHeight,
                row + 1,
                RowStep(acc,
                        RowLoop(imageData, cols, lut, colorMode, cellWidth,
                                cellHeight, row, 0,
                                [rowString |-> <<>>, rowColor |-> "",
                                 cells |-> <<>>]),
                        colorMode))

\* ReturnedObject with the colors field whatever colorMode is
ReturnedObjectMutAlwaysColors(r, colorMode) ==
  [result |-> [ascii |-> r.ascii, colors |-> r.colors],
   cells  |-> r.cells]

\* line 159: the returned object, with a colors field only in color mode,
\* and, as a record of the run, the cells passed
ReturnedObject(r, colorMode) ==
  [result |-> IF colorMode THEN [ascii |-> r.ascii, colors |-> r.colors]
              ELSE [ascii |-> r.ascii],
   cells  |-> r.cells]

\* imageDataToAscii(imageData, cols, rows, lut, colorMode) for integers
\* cols, rows >= 0
imageDataToAscii(imageData, cols, rows, lut, colorMode) ==
  ReturnedObject(RowsLoop(imageData, cols, rows, lut, colorMode,
                          NumDiv(Num(imageData.width), Num(cols)),
                          NumDiv(Num(imageData.height), Num(rows)),
                          0, [ascii |-> <<>>, colors |-> <<>>, cells |-> <<>>]),
                 colorMode)

\* ------------------------------------------------------------------------
\* src/src/lib/ascii.ts: class AsciiConverter
\* ------------------------------------------------------------------------
\* The canvas of a converter: its size and its bitmap, the RGBA channels of
\* its pixels row by row.  A channel that data does not hold is 0: a new or
\* resized canvas is transparent black, data = <<>>.
NewCanvas == [width |-> 300, height |-> 150, data |-> <<>>]

\* canvas.width = w; canvas.height = h: assigning the size clears the bitmap
SetCanvasSize(canvas, w, h) == [width |-> w, height |-> h, data |-> <<>>]

ChannelAt(data, i) == IF i \in DOMAIN data THEN data[i] ELSE 0

\* ctx.drawImage(source, 0, 0) for a source of sw x sh pixels sdata: the
\* source is composited over the bitmap at the origin, so an opaque source
\* pixel (alpha 255) replaces the canvas pixel and a transparent one (alpha
\* 0) leaves it; a source without pixels (a video without a current frame,
\* an image that is not loaded) draws nothing
DrawImage(canvas, sw, sh, sdata) ==
  [canvas EXCEPT !.data =
     [i \in 1..(4 * canvas.width * canvas.height) |->
        LET p == (i - 1) \div 4
            x == p % canvas.width
            y == p \div canvas.width
            s == (y * sw + x) * 4
        IN  IF x < sw /\ y < sh /\ ChannelAt(sdata, s + 4) = 255
            THEN sdata[s + 1 + ((i - 1) % 4)]
            ELSE ChannelAt(canvas.data, i)]]

\* ctx.getImageData(0, 0, canvas.width, canvas.height): throws when the
\* width or the height is 0
GetImageData(canvas) ==
  IF canvas.width = 0 \/ canvas.height = 0
  THEN [outcome |-> "threw",
        imageData |-> [data |-> <<>>, width |-> 0, height |-> 0]]
  ELSE [outcome |-> "returned",
        imageData |-> [data   |-> [i \in 1..(4 * canvas.width * canvas.height)
                                     |-> ChannelAt(canvas.data, i)],
                       width  |-> canvas.width,
                       height |-> canvas.height]]

\* the constructor with the check of lines 173-175 left out
AsciiConverterMutNoCheck(hasContext) ==
  [outcome |-> "constructed", canvas |-> NewCanvas]

\* new AsciiConverter(), lines 170-177, on a host whose getContext('2d')
\* gives a context or null
AsciiConverter(hasContext) ==
  IF ~hasContext THEN [outcome |-> "threw", canvas |-> NewCanvas]
  ELSE [outcome |-> "constructed", canvas |-> NewCanvas]

\* lines 201-208, 229-233 and 256-263: draw the source, read the canvas
\* back, convert; the canvas after the call, whether the call assigned the
\* canvas size, and what the call returned or that it threw
DrawAndConvert(canvas, assigned, sw, sh, sdata, cols, rows, lut, colorMode) ==
  LET drawn == DrawImage(canvas, sw, sh, sdata)
      read  == GetImageData(drawn)
  IN  [canvas   |-> drawn,
       assigned |-> assigned,
       outcome  |-> read.outcome,
       result   |-> IF read.outcome = "threw" THEN [ascii |-> <<>>]
                    ELSE imageDataToAscii(read.imageData, cols, rows, lut,
                                          colorMode).result]

\* convertVideoFrame, lines 188-209
convertVideoFrame(canvas, video, cols, rows, lut, colorMode) ==
  IF canvas.width # video.videoWidth \/ canvas.height # video.videoHeight
  THEN DrawAndConvert(SetCanvasSize(canvas, video.videoWidth, video.videoHeight),
                      TRUE, video.videoWidth, video.videoHeight, video.data,
                      cols, rows, lut, colorMode)
  ELSE DrawAndConvert(canvas, FALSE, video.videoWidth, video.videoHeight,
                      video.data, cols, rows, lut, colorMode)

\* convertImageBitmap, lines 219-234
convertImageBitmap(canvas, bitmap, cols, rows, lut, colorMode) ==
  DrawAndConvert(SetCanvasSize(canvas, bitmap.width, bitmap.height), TRUE,
                 bitmap.width, bitmap.height, bitmap.data,
                 cols, rows, lut, colorMode)

\* a || b of lines 252-253 for numbers
OrElse(a, b) == IF a # 0 THEN a ELSE b

\* convertImage, lines 245-264
convertImage(canvas, image, cols, rows, lut, colorMode) ==
  DrawAndConvert(SetCanvasSize(canvas, OrElse(image.naturalWidth, image.width),
                               OrElse(image.naturalHeight, image.height)),
                 TRUE, image.naturalWidth, image.naturalHeight, image.data,
                 cols, rows, lut, colorMode)

\* ------------------------------------------------------------------------
\* State
\* ------------------------------------------------------------------------
\* The library functions are pure; the state is, for each function, the
\* arguments of the call under study and the call's outcome.
VARIABLES
  charset,      \* createBrightnessLUT: the charset argument
  lutCall,      \* createBrightnessLUT: per invert argument, the call's outcome
  gridArgs,     \* calculateGridDimensions: videoWidth, videoHeight, cols
  gridCall,     \* calculateGridDimensions: the call's outcome
  asciiArgs,    \* imageDataToAscii: imageData, cols, rows, colorMode and
                \* invert, which names the table of lutCall passed as lut
  asciiCall     \* imageDataToAscii: the call's outcome

VARIABLES
  lumArgs,      \* calculateLuminance: r, g, b
  lumCall       \* calculateLuminance: the call's outcome

\* An AsciiConverter object and the last conversion call made on it.
VARIABLES
  hostContext,  \* whether canvas.getContext('2d') gives a context on this host
  converter,    \* the object: whether it is constructed, and its canvas
  convCall      \* the last convert... call: method, source, arguments, the
                \* canvas size before it, whether it assigned the canvas
                \* size, its outcome, and the outcome of the same call on a
                \* converter just constructed

\* A SimpleAsciiMirror component (src/src/components/SimpleAsciiMirror.tsx)
\* and the host it runs on.
VARIABLES
  mounted,            \* whether the component is mounted
  clock,              \* performance.now(), in whole milliseconds
  lastFrameTimeRef,   \* lastFrameTimeRef.current
  animationFrameRef,  \* animationFrameRef.current; 0 is null
  rafPending,         \* the ids of the animation frame requests of animate
                      \* that the host has neither run nor cancelled
  settingsRef,        \* settingsRef.current (and the settings state)
  video,              \* the video element: whether videoRef.current holds
                      \* it, its srcObject and onloadedmetadata, readyState,
                      \* videoWidth and videoHeight, a pending play()
  cameraRequests,     \* the getUserMedia promises not yet settled
  display,            \* the ascii, colors and status state
  loopLog             \* the times of the last two convertVideoFrame calls
                      \* of animate (lastCall, prevCall), of the last call
                      \* that returned (lastDone) and of the last that had
                      \* returned before lastCall (prevDone), the fpsLimit
                      \* read at the last call, what the last run of
                      \* animate did, and what has happened since the
                      \* unmount

\* The settings of a SimpleAsciiMirror as its controls and hotkeys change
\* them.
VARIABLES
  settings,    \* the settings state, lines 26-33
  lastInput    \* the last key press or slider change, and for a key cols
               \* before it

\* An AsciiMirror component (src/unnamed/part_003) and the host it runs
\* on.  Its converterRef is the converter above.
VARIABLES
  props,              \* the settings prop: cols, charset, invert, colorMode
                      \* and isPaused
  ascii,              \* the ascii state, line 29
  colors,             \* the colors state, line 30
  isWebcamAvailable,  \* line 31
  isInitialized,      \* line 32
  dimensions,         \* line 33
  streamRef,          \* whether streamRef.current holds a stream
  videoElement,       \* the video element of lines 276-283: whether it is
                      \* rendered (videoRef.current holds it), its
                      \* srcObject and onloadedmetadata, whether it is
                      \* loading a stream, readyState, videoWidth and
                      \* videoHeight
  mediaRequests,      \* the getUserMedia promises not yet settled
  framePending        \* whether the animation frame request of
                      \* animationFrameRef is pending

libraryVars == <<charset, lutCall, gridArgs, gridCall, asciiArgs, asciiCall>>
asciiMirrorVars ==
  <<props, ascii, colors, isWebcamAvailable, isInitialized, dimensions,
    streamRef, videoElement, mediaRequests, framePending>>
controlVars == <<settings, lastInput>>
mirrorVars ==
  <<mounted, clock, lastFrameTimeRef, animationFrameRef, rafPending,
    settingsRef, video, cameraRequests, display, loopLog>>
lumVars == <<lumArgs, lumCall>>
converterVars == <<hostContext, converter, convCall>>
\* the variables that the calls of createBrightnessLUT,
\* calculateGridDimensions and imageDataToAscii leave alone
otherVars ==
  <<lumVars, converterVars, mirrorVars, controlVars, asciiMirrorVars>>

vars == <<libraryVars, otherVars>>

NotCalled == [outcome |-> "none", lut |-> <<>>, charIndex |-> <<>>]
NoGridArgs == [videoWidth |-> 0, videoHeight |-> 0, cols |-> 0]
NoGridCall == [outcome |-> "none"]
NoAsciiArgs == [imageData |-> [data |-> <<>>, width |-> 0, height |-> 0],
                cols |-> 0, rows |-> 0, invert |-> FALSE, colorMode |-> FALSE]
NoAsciiCall == [outcome |-> "none"]
NoLumArgs == [r |-> 0, g |-> 0, b |-> 0]
NoLumCall == [outcome |-> "none"]

\* no call of the three library functions above is under study
LibraryIdle ==
  /\ charset = <<>>
  /\ lutCall = [inv \in BOOLEAN |-> NotCalled]
  /\ gridArgs = NoGridArgs
  /\ gridCall = NoGridCall
  /\ asciiArgs = NoAsciiArgs
  /\ asciiCall = NoAsciiCall

LumIdle == lumArgs = NoLumArgs /\ lumCall = NoLumCall

NoSource == [kind |-> "none", width |-> 0, height |-> 0,
             attrWidth |-> 0, attrHeight |-> 0, data |-> <<>>]
NoConvCall ==
  [method |-> "none", source |-> NoSource, cols |-> 0, rows |-> 0,
   colorMode |-> FALSE, canvasBefore |-> <<0, 0>>, assigned |-> FALSE,
   outcome |-> "none", result |-> [ascii |-> <<>>],
   freshOutcome |-> "none", freshResult |-> [ascii |-> <<>>]]
NoConverter == [state |-> "none", canvas |-> NewCanvas]

ConverterIdle ==
  /\ hostContext = FALSE
  /\ converter = NoConverter
  /\ convCall = NoConvCall

\* the settings a component starts with, lines 26-33, with the 80 columns
\* scaled down to 2 for the frames of CameraSize
InitialSettings ==
  [cols |-> 2, invert |-> FALSE, colorMode |-> FALSE,
   charset |-> "simple", fpsLimit |-> 24, isPaused |-> FALSE]

NoVideo ==
  [attached |-> FALSE, srcObject |-> FALSE, onloadedmetadata |-> FALSE,
   readyState |-> 0, videoWidth |-> 0, videoHeight |-> 0, playPending |-> FALSE]

Status(text) == [text |-> text, width |-> 0, height |-> 0]

NoDisplay == [ascii |-> <<>>, colors |-> <<>>, status |-> Status("Initializing...")]

\* what has happened since the unmount: animate has run, has called
\* convertVideoFrame, has called setAscii and setColors; a handler of
\* startCamera has called setStatus
NothingSinceUnmount ==
  [animate |-> FALSE, convert |-> FALSE, setState |-> FALSE, setStatus |-> FALSE]

NoLoopLog ==
  [prevCall |-> -1, prevDone |-> -1, lastCall |-> -1, lastDone |-> -1,
   fpsLimit |-> 0, lastRun |-> "none",
   sinceUnmount |-> NothingSinceUnmount]

MirrorIdle ==
  /\ mounted = FALSE
  /\ clock = 0
  /\ lastFrameTimeRef = 0
  /\ animationFrameRef = 0
  /\ rafPending = {}
  /\ settingsRef = InitialSettings
  /\ video = NoVideo
  /\ cameraRequests = 0
  /\ display = NoDisplay
  /\ loopLog = NoLoopLog

\* the settings a component starts with, lines 26-33
DefaultSettings ==
  [cols |-> 80, invert |-> FALSE, colorMode |-> FALSE,
   charset |-> "simple", fpsLimit |-> 24, isPaused |-> FALSE]

NoInput == [kind |-> "none", key |-> "", colsBefore |-> 0]

ControlsIdle == settings = DefaultSettings /\ lastInput = NoInput

\* the grid an AsciiMirror starts with, line 33, and the columns of line
\* 68.  The grids of the model are scaled down: 5 columns stand for the 80
\* of the source and 2 rows for its 24.
InitialDimensions == [cols |-> 5, rows |-> 2]

\* the settings prop an AsciiMirror is first rendered with
InitialProps ==
  [cols |-> InitialDimensions.cols, invert |-> FALSE, colorMode |-> FALSE,
   charset |-> "simple", isPaused |-> FALSE]

\* no video element is rendered
NoVideoElement ==
  [rendered |-> FALSE, srcObject |-> FALSE, onloadedmetadata |-> FALSE,
   loading |-> FALSE, readyState |-> 0, videoWidth |-> 0, videoHeight |-> 0]

\* no AsciiMirror is under study
AsciiMirrorIdle ==
  /\ props = InitialProps
  /\ ascii = <<>>
  /\ colors = <<>>
  /\ isWebcamAvailable = TRUE
  /\ isInitialized = FALSE
  /\ dimensions = InitialDimensions
  /\ streamRef = FALSE
  /\ videoElement = NoVideoElement
  /\ mediaRequests = 0
  /\ framePending = FALSE

OthersIdle ==
  LumIdle /\ ConverterIdle /\ MirrorIdle /\ ControlsIdle /\ AsciiMirrorIdle

\* ------------------------------------------------------------------------
\* Bounds
\* ------------------------------------------------------------------------
MaxCharsetLen == 4
MaxVideoDim == 9
MaxColumns == 4
MaxRasterDim == 3
MaxGrid == 3

\* ------------------------------------------------------------------------
\* createBrightnessLUT called on one charset with both values of invert
\* ------------------------------------------------------------------------
TestGlyphs == {"a", "b"}

\* the charsets the calls are made with: the three built-in ones, a custom
\* one of 52 glyphs, and every string over TestGlyphs up to MaxCharsetLen
\* (the empty string included)
CharsetInputs ==
  {CHARSETS.simple, CHARSETS.detailed, CHARSETS.blocks,
   SubSeq(CHARSETS.detailed, 1, 52)}
  \cup UNION {[1..n -> TestGlyphs] : n \in 0..MaxCharsetLen}

InitLUT ==
  /\ charset \in CharsetInputs
  /\ lutCall = [inv \in BOOLEAN |-> NotCalled]
  /\ gridArgs = NoGridArgs
  /\ gridCall = NoGridCall
  /\ asciiArgs = NoAsciiArgs
  /\ asciiCall = NoAsciiCall
  /\ OthersIdle

\* a table is built before the conversion that uses it
CallCreateBrightnessLUT(inv) ==
  /\ lutCall[inv].outcome = "none"
  /\ asciiCall.outcome = "none"
  /\ lutCall' = [lutCall EXCEPT ![inv] = createBrightnessLUT(charset, inv)]
  /\ UNCHANGED <<charset, gridArgs, gridCall, asciiArgs, asciiCall>>
  /\ UNCHANGED otherVars

NextLUT == \E inv \in BOOLEAN : CallCreateBrightnessLUT(inv)

SpecLUT == InitLUT /\ [][NextLUT]_vars

\* ------------------------------------------------------------------------
\* calculateGridDimensions called once
\* ------------------------------------------------------------------------
\* pixel sizes of the source: the small ones and those of the tests
VideoDims == 0..MaxVideoDim \cup {240, 320, 480, 640, 1080, 1920}
ColumnInputs == 1..MaxColumns \cup {14, 40, 80, 120}

InitGrid ==
  /\ charset = <<>>
  /\ lutCall = [inv \in BOOLEAN |-> NotCalled]
  /\ gridArgs \in [videoWidth : VideoDims, videoHeight : VideoDims,
                    cols : ColumnInputs]
  /\ gridCall = NoGridCall
  /\ asciiArgs = NoAsciiArgs
  /\ asciiCall = NoAsciiCall
  /\ OthersIdle

CallCalculateGridDimensions ==
  /\ gridCall.outcome = "none"
  /\ gridCall' =
       LET r == calculateGridDimensions(gridArgs.videoWidth,
                                        gridArgs.videoHeight, gridArgs.cols)
       IN  [outcome |-> "returned", cols |-> r.cols, rows |-> r.rows]
  /\ UNCHANGED <<charset, lutCall, gridArgs, asciiArgs, asciiCall>>
  /\ UNCHANGED otherVars

NextGrid == CallCalculateGridDimensions

SpecGrid == InitGrid /\ [][NextGrid]_vars

\* ------------------------------------------------------------------------
\* createBrightnessLUT called on a built-in charset, then imageDataToAscii
\* called once with a table it returned
\* ------------------------------------------------------------------------
\* createMockImageData(width, height, color) of the library's test file: a
\* raster whose pixels all have the channels color
createMockImageData(width, height, color) ==
  [data   |-> [i \in 1..(width * height * 4) |-> color[((i - 1) % 4) + 1]],
   width  |-> width,
   height |-> height]

\* a raster whose pixels differ: the channels of pixel (x, y) depend on x
\* and y
RampImageData(width, height) ==
  [data   |-> [i \in 1..(width * height * 4) |->
                 LET p == (i - 1) \div 4
                     x == p % width
                     y == p \div width
                 IN  CASE (i - 1) % 4 = 0 -> (x * 90) % 256
                       [] (i - 1) % 4 = 1 -> (y * 70 + 10) % 256
                       [] (i - 1) % 4 = 2 -> (255 - 40 * (x + y)) % 256
                       [] OTHER -> 255],
   width  |-> width,
   height |-> height]

White == <<255, 255, 255, 255>>
Black == <<0, 0, 0, 255>>
Gray == <<128, 128, 128, 255>>
Red == <<255, 0, 0, 255>>
UniformColors == {White, Black, Gray, Red}

RasterInputs ==
  {createMockImageData(w, h, color) :
     w \in 0..MaxRasterDim, h \in 0..MaxRasterDim, color \in UniformColors}
  \cup {RampImageData(w, h) : w \in 0..MaxRasterDim, h \in 0..MaxRasterDim}

\* 49 columns asked of a raster 2 pixels wide: the cell width 2 / 49 is
\* rounded down, and 49 times it is less than 2
OversampledArgInputs ==
  [imageData : {RampImageData(2, 1)},
   cols : {49}, rows : {1}, invert : {FALSE}, colorMode : BOOLEAN]

\* 11 columns asked of a raster 15 pixels wide: the cell width 15 / 11 is
\* rounded down, and 11 times it is less than 15
UnevenArgInputs ==
  [imageData : {RampImageData(15, 1)},
   cols : {11}, rows : {1}, invert : {FALSE}, colorMode : BOOLEAN]

\* a raster one pixel high with the given pixels
PixelRow(pixels) ==
  [data   |-> [i \in 1..(Len(pixels) * 4) |->
                 pixels[((i - 1) \div 4) + 1][((i - 1) % 4) + 1]],
   width  |-> Len(pixels),
   height |-> 1]

\* one cell over pixels of different colors: the channel means 127.5 and
\* 212.66..., 127.66...
MixedArgInputs ==
  [imageData : {PixelRow(<<Black, White>>), PixelRow(<<Red, Gray, White>>)},
   cols : {1}, rows : {1}, invert : BOOLEAN, colorMode : BOOLEAN]

AsciiArgInputs ==
  [imageData : RasterInputs, cols : 0..MaxGrid, rows : 0..MaxGrid,
   invert : BOOLEAN, colorMode : BOOLEAN]
  \cup OversampledArgInputs
  \cup UnevenArgInputs
  \cup MixedArgInputs

InitAscii ==
  /\ charset \in {CHARSETS.simple, CHARSETS.blocks}
  /\ lutCall = [inv \in BOOLEAN |-> NotCalled]
  /\ gridArgs = NoGridArgs
  /\ gridCall = NoGridCall
  /\ asciiArgs = NoAsciiArgs
  /\ asciiCall = NoAsciiCall
  /\ OthersIdle

\* imageDataToAscii called with the table that createBrightnessLUT returned
\* for args.invert
CallImageDataToAscii(args) ==
  /\ asciiCall.outcome = "none"
  /\ lutCall[args.invert].outcome = "returned"
  /\ asciiArgs' = args
  /\ asciiCall' =
       LET r == imageDataToAscii(args.imageData, args.cols, args.rows,
                                 lutCall[args.invert].lut, args.colorMode)
       IN  [outcome |-> "returned", result |-> r.result, cells |-> r.cells]
  /\ UNCHANGED <<charset, lutCall, gridArgs, gridCall>>
  /\ UNCHANGED otherVars

NextAscii ==
  \/ \E inv \in BOOLEAN : CallCreateBrightnessLUT(inv)
  \/ \E args \in AsciiArgInputs : CallImageDataToAscii(args)

SpecAscii == InitAscii /\ [][NextAscii]_vars

\* ------------------------------------------------------------------------
\* calculateLuminance called once
\* ------------------------------------------------------------------------
\* channel values of the colors tried besides the grays; (0, 14, 76) and
\* (0, 150, 100) have a weighted sum that ends in .5
ChannelSamples == {0, 14, 76, 100, 128, 150, 255}

LumInputs ==
  {[r |-> v, g |-> v, b |-> v] : v \in 0..255}
  \cup [r : ChannelSamples, g : ChannelSamples, b : ChannelSamples]

InitLum ==
  /\ LibraryIdle
  /\ AsciiMirrorIdle
  /\ lumArgs \in LumInputs
  /\ lumCall = NoLumCall
  /\ ConverterIdle
  /\ MirrorIdle
  /\ ControlsIdle

CallCalculateLuminance ==
  /\ lumCall.outcome = "none"
  /\ lumCall' = [outcome |-> "returned",
                 value   |-> calculateLuminance(Num(lumArgs.r), Num(lumArgs.g),
                                                Num(lumArgs.b))]
  /\ UNCHANGED <<libraryVars, asciiMirrorVars, lumArgs, converterVars, mirrorVars, controlVars>>

NextLum == CallCalculateLuminance

SpecLum == InitLum /\ [][NextLum]_vars

\* ------------------------------------------------------------------------
\* An AsciiConverter constructed, then convert... calls in any order
\* ------------------------------------------------------------------------
MaxSourceWidth == 2
MaxSourceHeight == 1

\* a transparent pixel
Clear == <<0, 0, 0, 0>>

\* the table passed to every call: the plain table of the simple charset
PlainLut == createBrightnessLUT(CHARSETS.simple, FALSE).lut

\* the widths of the grids asked for
ConvCols == {1, 2}

\* decoded pictures of width x height white opaque pixels; a size of 0 is
\* that of a video or an image that has not loaded
SourceRasters ==
  {createMockImageData(w, h, White) :
     w \in 0..MaxSourceWidth, h \in 0..MaxSourceHeight}

\* what a video element gives drawImage: its current frame, or nothing to
\* draw while it has no current frame although its size is known (drawn
\* here as transparent pixels, which leave the canvas as it is)
VideoRasters ==
  SourceRasters
  \cup {createMockImageData(w, h, Clear) :
          w \in 1..MaxSourceWidth, h \in 1..MaxSourceHeight}

Source(kind, raster, attr) ==
  [kind |-> kind, width |-> raster.width, height |-> raster.height,
   attrWidth |-> attr[1], attrHeight |-> attr[2], data |-> raster.data]

\* videos (videoWidth, videoHeight), image bitmaps (width, height > 0) and
\* images (naturalWidth, naturalHeight, and the width and height attributes)
SourceInputs ==
  {Source("video", r, <<0, 0>>) : r \in VideoRasters}
  \cup {Source("bitmap", r, <<0, 0>>) :
          r \in {q \in SourceRasters : q.width > 0 /\ q.height > 0}}
  \cup {Source("image", r, <<0, 0>>) : r \in SourceRasters}
  \cup {Source("image", createMockImageData(0, 0, White), <<2, 1>>)}

InitConverter ==
  /\ LibraryIdle
  /\ AsciiMirrorIdle
  /\ LumIdle
  /\ MirrorIdle
  /\ ControlsIdle
  /\ hostContext \in BOOLEAN
  /\ converter = NoConverter
  /\ convCall = NoConvCall

\* new AsciiConverter()
Construct ==
  /\ converter.state = "none"
  /\ converter' = LET c == AsciiConverter(hostContext)
                  IN  [state |-> c.outcome, canvas |-> c.canvas]
  /\ UNCHANGED <<libraryVars, asciiMirrorVars, lumVars, controlVars, mirrorVars,
                 hostContext, convCall>>

\* the call of the method that takes the source, on a canvas
CallOn(canvas, source, cols, rows, colorMode) ==
  CASE source.kind = "video" ->
         convertVideoFrame(canvas,
                           [videoWidth |-> source.width,
                            videoHeight |-> source.height, data |-> source.data],
                           cols, rows, PlainLut, colorMode)
    [] source.kind = "bitmap" ->
         convertImageBitmap(canvas,
                            [width |-> source.width, height |-> source.height,
                             data |-> source.data],
                            cols, rows, PlainLut, colorMode)
    [] OTHER ->
         convertImage(canvas,
                      [naturalWidth |-> source.width,
                       naturalHeight |-> source.height,
                       width |-> source.attrWidth, height |-> source.attrHeight,
                       data |-> source.data],
                      cols, rows, PlainLut, colorMode)

MethodOf(source) ==
  CASE source.kind = "video" -> "convertVideoFrame"
    [] source.kind = "bitmap" -> "convertImageBitmap"
    [] OTHER -> "convertImage"

\* the record of a call made on the converter, given what it did (call) and
\* what the same call does on a converter just constructed (fresh)
CallRecord(source, cols, rows, colorMode, call, fresh) ==
  [method |-> MethodOf(source), source |-> source, cols |-> cols,
   rows |-> rows, colorMode |-> colorMode,
   canvasBefore |-> <<converter.canvas.width, converter.canvas.height>>,
   assigned |-> call.assigned,
   outcome |-> call.outcome, result |-> call.result,
   freshOutcome |-> fresh.outcome, freshResult |-> fresh.result]

\* one convertVideoFrame, convertImageBitmap or convertImage call on the
\* constructed converter
ConvertWith(source, cols, rows, colorMode, call, fresh) ==
  /\ converter' = [converter EXCEPT !.canvas = call.canvas]
  /\ convCall' = CallRecord(source, cols, rows, colorMode, call, fresh)

Convert(source, cols, rows, colorMode) ==
  /\ converter.state = "constructed"
  /\ ConvertWith(source, cols, rows, colorMode,
                 CallOn(converter.canvas, source, cols, rows, colorMode),
                 CallOn(NewCanvas, source, cols, rows, colorMode))
  /\ UNCHANGED <<libraryVars, asciiMirrorVars, lumVars, controlVars, mirrorVars, hostContext>>

NextConverter ==
  \/ Construct
  \/ \E source \in SourceInputs, cols \in ConvCols :
       Convert(source, cols, 1, TRUE)

SpecConverter == InitConverter /\ [][NextConverter]_vars

\* ------------------------------------------------------------------------
\* Claims about createBrightnessLUT (checked under SpecLUT)
\* ------------------------------------------------------------------------
Returned(inv) == lutCall[inv].outcome = "returned"

C2_ThrowsIffEmpty ==
  \A inv \in BOOLEAN :
    lutCall[inv].outcome # "none" =>
      /\ (lutCall[inv].outcome = "threw") <=> (Len(charset) = 0)
      /\ lutCall[inv].outcome = "threw" => lutCall[inv].lut = <<>>
      /\ Len(charset) > 0 => DOMAIN lutCall[inv].lut = 0..255

\* C2 witness: both calls on the empty charset have thrown.
C2_Witness ==
  /\ charset = <<>>
  /\ \A inv \in BOOLEAN : lutCall[inv].outcome = "threw"

\* C3: at every brightness the index chosen with invert = true is (N - 1)
\* minus the index chosen with invert = false; entry 255 of the inverted
\* table is entry 0 of the plain one and entry 0 is its entry 255.
C3_InvertMirrorsIndex ==
  (Returned(FALSE) /\ Returned(TRUE)) =>
    /\ \A b \in 0..255 :
         /\ lutCall[TRUE].charIndex[b]
              = (Len(charset) - 1) - lutCall[FALSE].charIndex[b]
         /\ lutCall[TRUE].lut[b] = CharAt(charset, lutCall[TRUE].charIndex[b])
    /\ lutCall[TRUE].lut[255] = lutCall[FALSE].lut[0]
    /\ lutCall[TRUE].lut[0] = lutCall[FALSE].lut[255]

\* C3 witness: both tables of the simple charset are built and the inverted
\* one starts with the brightest glyph and ends with the darkest.
C3_Witness ==
  /\ charset = CHARSETS.simple
  /\ Returned(FALSE) /\ Returned(TRUE)
  /\ lutCall[TRUE].lut[0] = "@"
  /\ lutCall[TRUE].lut[255] = " "

\* C4: in a non-inverted table entry 0 is the first glyph of the charset,
\* entry 255 the last, and the glyph index never decreases as the
\* brightness grows.
C4_PlainLutMonotone ==
  Returned(FALSE) =>
    /\ lutCall[FALSE].lut[0] = charset[1]
    /\ lutCall[FALSE].lut[255] = charset[Len(charset)]
    /\ lutCall[FALSE].charIndex[0] = 0
    /\ lutCall[FALSE].charIndex[255] = Len(charset) - 1
    /\ \A a \in 0..255 : \A b \in a..255 :
         lutCall[FALSE].charIndex[a] <= lutCall[FALSE].charIndex[b]

\* C4 witness: the non-inverted table of the detailed charset is built; it
\* runs from " " to "$" and passes through an inner glyph.
C4_Witness ==
  /\ charset = CHARSETS.detailed
  /\ Returned(FALSE)
  /\ lutCall[FALSE].lut[0] = " "
  /\ lutCall[FALSE].lut[255] = "$"
  /\ lutCall[FALSE].charIndex[128] = 34

\* C5: a returned table, inverted or not, has exactly the 256 positions
\* 0..255, every chosen index lies in 0..N-1 and every entry is the glyph at
\* that index; for a single-glyph charset all entries are that glyph.
C5_LutShape ==
  \A inv \in BOOLEAN :
    Returned(inv) =>
      /\ DOMAIN lutCall[inv].lut = 0..255
      /\ \A b \in 0..255 :
           /\ lutCall[inv].charIndex[b] \in 0..(Len(charset) - 1)
           /\ lutCall[inv].lut[b] = charset[lutCall[inv].charIndex[b] + 1]
           /\ Len(charset) = 1 => lutCall[inv].lut[b] = charset[1]

\* C5 witness: both tables of a single-glyph charset are built and hold that
\* glyph in the middle and at both ends.
C5_Witness ==
  /\ charset = <<"a">>
  /\ \A inv \in BOOLEAN :
       /\ Returned(inv)
       /\ lutCall[inv].lut[0] = "a"
       /\ lutCall[inv].lut[77] = "a"
       /\ lutCall[inv].lut[255] = "a"

C7_ZeroSizeGivesZeroRows ==
  (/\ gridCall.outcome = "returned"
   /\ gridArgs.cols > 0
   /\ (gridArgs.videoWidth = 0 \/ gridArgs.videoHeight = 0)) =>
    gridCall.rows = Zero

\* ------------------------------------------------------------------------
\* Claims about imageDataToAscii (checked under SpecAscii)
\* ------------------------------------------------------------------------
Converted == asciiCall.outcome = "returned"

\* the character of the returned text at grid position (row, col)
TextAt(row, col) ==
  asciiCall.result.ascii[row * (asciiArgs.cols + 1) + col + 1]

\* the raster of the call has pixels, all of the given color
AllPixels(color) ==
  /\ asciiArgs.imageData.width > 0
  /\ asciiArgs.imageData.height > 0
  /\ asciiArgs.imageData =
       createMockImageData(asciiArgs.imageData.width,
                           asciiArgs.imageData.height, color)

\* C8: the text returned for rows = R and columns = C has R lines of C
\* characters, each a glyph of the table and each line followed by one line
\* terminator, so its length is R * (C + 1).
C8_TextShape ==
  Converted =>
    /\ Len(asciiCall.result.ascii) = asciiArgs.rows * (asciiArgs.cols + 1)
    /\ \A row \in 0..(asciiArgs.rows - 1) :
         /\ TextAt(row, asciiArgs.cols) = "\n"
         /\ \A col \in 0..(asciiArgs.cols - 1) :
              /\ TextAt(row, col) # "\n"
              /\ \E b \in 0..255 :
                   TextAt(row, col) = lutCall[asciiArgs.invert].lut[b]

\* C8 witness: a raster of 2 x 1 pixels converted to 3 rows of 2 columns,
\* two more rows than the raster has pixel rows for: 9 characters.
C8_Witness ==
  /\ Converted
  /\ asciiArgs.imageData.width = 2 /\ asciiArgs.imageData.height = 1
  /\ asciiArgs.cols = 2 /\ asciiArgs.rows = 3
  /\ Len(asciiCall.result.ascii) = 9
  /\ TextAt(2, 2) = "\n"

\* the value of rowColor at line 155 for a row: the color assigned by the
\* last cell of the row that assigned one, the empty string if none did
RECURSIVE LastAssigned(_, _)
LastAssigned(cells, n) ==
  IF n = 0 THEN ""
  ELSE IF cells[n].assigns THEN cells[n].color
  ELSE LastAssigned(cells, n - 1)

\* C9: the result has a colors field exactly when colorMode is true, and
\* then colors holds one entry per grid row, in row order.
C9_ColorsIffColorMode ==
  Converted =>
    /\ ("colors" \in DOMAIN asciiCall.result) <=> asciiArgs.colorMode
    /\ asciiArgs.colorMode =>
         /\ Len(asciiCall.result.colors) = asciiArgs.rows
         /\ \A row \in 1..asciiArgs.rows :
              asciiCall.result.colors[row]
                = LastAssigned(asciiCall.cells[row], asciiArgs.cols)

\* C9 witness: a raster of differing pixels converted in color mode to two
\* rows whose colors differ.
C9_Witness ==
  /\ Converted
  /\ asciiArgs.colorMode
  /\ asciiArgs.rows = 2
  /\ Len(asciiCall.result.colors) = 2
  /\ asciiCall.result.colors[1] # asciiCall.result.colors[2]
  /\ asciiCall.result.colors[1] # ""
  /\ asciiCall.result.colors[2] # ""

\* C10 as claimed: with a non-inverted table an all-white raster gives the
\* last glyph of the charset in every cell, and an all-black raster the
\* first, for every positive columns and rows.
C10_UniformRasterAnyGrid ==
  (Converted /\ ~asciiArgs.invert /\ asciiArgs.cols > 0 /\ asciiArgs.rows > 0) =>
    \A row \in 0..(asciiArgs.rows - 1) : \A col \in 0..(asciiArgs.cols - 1) :
      /\ AllPixels(White) => TextAt(row, col) = charset[Len(charset)]
      /\ AllPixels(Black) => TextAt(row, col) = charset[1]

\* C10 as amended: with a non-inverted table an all-white raster gives the
\* last glyph of the charset in every cell that covers a pixel, which is every
\* cell when columns <= width and rows <= height, and the first glyph in the
\* cells that cover none; an all-black raster gives the first glyph in every
\* cell, for every positive columns and rows.
C10_UniformRasterCoveredCells ==
  (Converted /\ ~asciiArgs.invert /\ asciiArgs.cols > 0 /\ asciiArgs.rows > 0) =>
    \A row \in 0..(asciiArgs.rows - 1) : \A col \in 0..(asciiArgs.cols - 1) :
      LET cell == asciiCall.cells[row + 1][col + 1] IN
      /\ AllPixels(White) =>
           /\ cell.pixelCount > 0 => TextAt(row, col) = charset[Len(charset)]
           /\ cell.pixelCount = 0 => TextAt(row, col) = charset[1]
           /\ (/\ asciiArgs.cols <= asciiArgs.imageData.width
               /\ asciiArgs.rows <= asciiArgs.imageData.height)
                => cell.pixelCount > 0
      /\ AllPixels(Black) => TextAt(row, col) = charset[1]

\* C10 witness: a 3 x 2 white raster converted with the plain table of the
\* simple charset to 2 rows of 3 columns, all "@".
C10_Witness ==
  /\ Converted
  /\ ~asciiArgs.invert
  /\ charset = CHARSETS.simple
  /\ asciiArgs.imageData = createMockImageData(3, 2, White)
  /\ asciiArgs.cols = 3 /\ asciiArgs.rows = 2
  /\ asciiCall.result.ascii = <<"@", "@", "@", "\n", "@", "@", "@", "\n">>

\* the cells of the call that cover no pixel of the raster
EmptyCells ==
  {rc \in (0..(asciiArgs.rows - 1)) \X (0..(asciiArgs.cols - 1)) :
     asciiCall.cells[rc[1] + 1][rc[2] + 1].pixelCount = 0}

\* C11: a cell whose rectangle holds no pixel emits entry 0 of the table
\* and assigns no color to its row, so the row's color is that of the last
\* cell holding a pixel (the empty string if there is none); the call
\* returns, and a 0 x 0 raster converted to 1 column and 1 row gives entry 0
\* of the table followed by one line terminator.
C11_EmptyCellEmitsEntryZero ==
  Converted =>
    /\ \A rc \in EmptyCells :
         /\ TextAt(rc[1], rc[2]) = lutCall[asciiArgs.invert].lut[0]
         /\ ~asciiCall.cells[rc[1] + 1][rc[2] + 1].assigns
         /\ asciiCall.cells[rc[1] + 1][rc[2] + 1].color = ""
    /\ asciiArgs.colorMode =>
         \A row \in 1..asciiArgs.rows :
           (\A col \in 0..(asciiArgs.cols - 1) : <<row - 1, col>> \in EmptyCells)
             => asciiCall.result.colors[row] = ""
    /\ (/\ asciiArgs.imageData.width = 0 /\ asciiArgs.imageData.height = 0
        /\ asciiArgs.cols = 1 /\ asciiArgs.rows = 1)
         => asciiCall.result.ascii
              = <<lutCall[asciiArgs.invert].lut[0], "\n">>

\* C11 witness: a 0 x 0 raster converted with the inverted table of the
\* simple charset to 1 column and 1 row gives "@" and a terminator.
C11_Witness ==
  /\ Converted
  /\ charset = CHARSETS.simple
  /\ asciiArgs.invert
  /\ asciiArgs.imageData = createMockImageData(0, 0, White)
  /\ asciiArgs.cols = 1 /\ asciiArgs.rows = 1
  /\ EmptyCells = {<<0, 0>>}
  /\ asciiCall.result.ascii = <<"@", "\n">>

\* ------------------------------------------------------------------------
\* Claims about calculateLuminance (checked under SpecLum)
\* ------------------------------------------------------------------------
\* the call has returned for the channels r, g, b
LumOf(r, g, b) ==
  lumCall.outcome = "returned" /\ lumArgs = [r |-> r, g |-> g, b |-> b]

RgbString(color) ==
  "rgb(" \o ToString(color[1]) \o ", " \o ToString(color[2]) \o ", "
  \o ToString(color[3]) \o ")"

RoundedMean(cell, off) ==
  (2 * SumChannel(asciiArgs.imageData.data, cell.index, off) + cell.pixelCount)
    \div (2 * cell.pixelCount)

\* "rgb(r, g, b)" of the rounded channel means of a cell that covers pixels
MeanColor(cell) ==
  RgbString(<<RoundedMean(cell, 0), RoundedMean(cell, 1), RoundedMean(cell, 2)>>)

\* the largest column index of the row whose cell covers a pixel, -1 if
\* there is none
RECURSIVE LastCovered(_, _)
LastCovered(cells, n) ==
  IF n = 0 THEN -1
  ELSE IF cells[n].pixelCount > 0 THEN n - 1
  ELSE LastCovered(cells, n - 1)

ColorCall ==
  /\ Converted
  /\ asciiArgs.colorMode
  /\ asciiArgs.imageData.width > 0 /\ asciiArgs.imageData.height > 0
  /\ asciiArgs.cols > 0 /\ asciiArgs.rows > 0

\* C14: in color mode the color of a row that contains pixels is
\* the rounded mean RGB of the cell at column index columns - 1, for every
\* raster with width > 0 and height > 0 and every positive columns and rows.
C14_RowColorOfLastColumn ==
  ColorCall =>
    \A row \in 1..asciiArgs.rows :
      LastCovered(asciiCall.cells[row], asciiArgs.cols) >= 0 =>
        /\ asciiCall.cells[row][asciiArgs.cols].pixelCount > 0
        /\ asciiCall.result.colors[row]
             = MeanColor(asciiCall.cells[row][asciiArgs.cols])

\* C15: a call with rows = 0 or columns = 0, whatever the raster, returns:
\* with rows = 0 the text is empty and, in color mode, colors is empty;
\* with columns = 0 and rows = R the text is R line terminators (R empty
\* lines) and, in color mode, colors is R empty strings.
C15_ZeroGridIsWellFormed ==
  (Converted /\ (asciiArgs.rows = 0 \/ asciiArgs.cols = 0)) =>
    /\ DOMAIN asciiCall.result
         = IF asciiArgs.colorMode THEN {"ascii", "colors"} ELSE {"ascii"}
    /\ asciiArgs.rows = 0 =>
         /\ asciiCall.result.ascii = <<>>
         /\ asciiArgs.colorMode => asciiCall.result.colors = <<>>
    /\ asciiArgs.cols = 0 =>
         /\ asciiCall.result.ascii = [i \in 1..asciiArgs.rows |-> "\n"]
         /\ asciiArgs.colorMode =>
              asciiCall.result.colors = [i \in 1..asciiArgs.rows |-> ""]

\* C15 witness: a 2 x 2 raster converted in color mode to 0 columns and 3
\* rows gives three line terminators and three empty colors.
C15_Witness ==
  /\ Converted
  /\ asciiArgs.colorMode
  /\ asciiArgs.imageData.width = 2 /\ asciiArgs.imageData.height = 2
  /\ asciiArgs.cols = 0 /\ asciiArgs.rows = 3
  /\ asciiCall.result.ascii = <<"\n", "\n", "\n">>
  /\ asciiCall.result.colors = <<"", "", "">>

\* ------------------------------------------------------------------------
\* src/src/components/SimpleAsciiMirror.tsx: the frame loop of a mounted
\* component, its camera, and its unmount
\* ------------------------------------------------------------------------
MaxTicks == 2
TickMs == 25
MaxRafId == 2

\* performance.now() when the component mounts
MountTime == 1000

\* the size of the camera's frames: the 640 x 480 asked for at line 114,
\* scaled down
CameraSize == [width |-> 2, height |-> 2]

\* the fpsLimit values set through the slider of lines 249-256 (5 to 60),
\* with the initial 24
FpsInputs == {24, 50}

\* deltaTime >= x for a deltaTime of whole milliseconds and a Number x >= 0
NumGeqInt(deltaTime, x) ==
  \/ deltaTime > MathFloor(x)
  \/ deltaTime = MathFloor(x) /\ Num(deltaTime) = x

\* targetFrameTime, line 56
targetFrameTime(fpsLimit) == NumDiv(Num(1000), Num(fpsLimit))

\* the condition of line 58 with the comparison of the times left out
ShouldConvertMutNoThrottle(deltaTime, fpsLimit, v) ==
  v.readyState >= 2 /\ v.videoWidth > 0

\* the condition of line 58
ShouldConvert(deltaTime, fpsLimit, v) ==
  /\ NumGeqInt(deltaTime, targetFrameTime(fpsLimit))
  /\ v.readyState >= 2
  /\ v.videoWidth > 0

\* rows, line 61
MirrorRows(v, cols) ==
  MathFloor(NumMul(NumDiv(Num(v.videoHeight), NumDiv(Num(v.videoWidth), Num(cols))),
                   NumDiv(Num(1), Num(2))))

\* lut, line 60
MirrorLut(s) ==
  IF s.charset = "simple" /\ ~s.invert THEN PlainLut
  ELSE createBrightnessLUT(CHARSETS[s.charset], s.invert).lut

\* the video element as a source of convertVideoFrame: the camera's frames
\* are opaque
CameraFrame(v) ==
  Source("video", createMockImageData(v.videoWidth, v.videoHeight, White), <<0, 0>>)

\* what animate and the other handlers add to the log
LogRun(log, run) ==
  [log EXCEPT !.lastRun = run, !.sinceUnmount.animate = @ \/ ~mounted]

LogCall(log, run) ==
  [log EXCEPT !.lastRun = run,
              !.prevCall = log.lastCall,
              !.prevDone = log.lastDone,
              !.lastCall = clock,
              !.lastDone = IF run = "converted" THEN clock ELSE log.lastDone,
              !.fpsLimit = settingsRef.fpsLimit,
              !.sinceUnmount.animate = @ \/ ~mounted,
              !.sinceUnmount.convert = @ \/ ~mounted]

LogSetState(log) == [log EXCEPT !.sinceUnmount.setState = @ \/ ~mounted]

LogSetStatus(log) == [log EXCEPT !.sinceUnmount.setStatus = @ \/ ~mounted]

\* setStatus(status): the state of an unmounted component does not change
SetStatus(shown, status) ==
  IF mounted THEN [shown EXCEPT !.status = status] ELSE shown

\* setAscii and setColors, lines 63-69
SetResult(shown, result) ==
  IF mounted
    THEN [shown EXCEPT !.ascii = result.ascii,
                       !.colors = IF "colors" \in DOMAIN result
                                    THEN result.colors ELSE <<>>]
    ELSE shown

InitMirror ==
  /\ LibraryIdle
  /\ AsciiMirrorIdle
  /\ LumIdle
  /\ ControlsIdle
  /\ hostContext = TRUE
  /\ converter = [state |-> AsciiConverter(TRUE).outcome,
                  canvas |-> AsciiConverter(TRUE).canvas]
  /\ convCall = NoConvCall
  /\ mounted = TRUE
  /\ clock = MountTime
  /\ lastFrameTimeRef = 0
  /\ animationFrameRef = 1
  /\ rafPending = {1}
  /\ settingsRef = InitialSettings
  /\ video = [NoVideo EXCEPT !.attached = TRUE]
  /\ cameraRequests = 1
  /\ display = [NoDisplay EXCEPT !.status = Status("Requesting camera...")]
  /\ loopLog = NoLoopLog

\* The id requestAnimationFrame returns when the requests of rest are
\* pending.  The program compares ids only for equality, and
\* animationFrameRef holds the id of the last request made, so the id of a
\* request that has run or was cancelled is given out again: the least id
\* that is not pending.
RequestId(rest) ==
  CHOOSE id \in 1..(MaxRafId + 1) : id \notin rest /\ \A j \in 1..(id - 1) : j \in rest

\* animationFrameRef.current = requestAnimationFrame(animate), with rest the
\* requests pending before it
Schedule(rest) ==
  /\ RequestId(rest) <= MaxRafId
  /\ animationFrameRef' = RequestId(rest)
  /\ rafPending' = rest \cup {RequestId(rest)}

\* lines 59-73 with the time of the call stored although the call has thrown
animateConvertMutStamp(shown, log, call) ==
  /\ converter' = [converter EXCEPT !.canvas = call.canvas]
  /\ UNCHANGED convCall
  /\ lastFrameTimeRef' = clock
  /\ IF call.outcome = "returned"
       THEN /\ display' = SetResult(shown, call.result)
            /\ loopLog' = LogSetState(LogCall(log, "converted"))
       ELSE /\ display' = shown
            /\ loopLog' = LogCall(log, "failed")

\* lines 59-73 of animate: the call has returned or thrown
animateConvert(shown, log, call) ==
  /\ converter' = [converter EXCEPT !.canvas = call.canvas]
  /\ UNCHANGED convCall
  /\ IF call.outcome = "returned"
       THEN /\ display' = SetResult(shown, call.result)
            /\ lastFrameTimeRef' = clock
            /\ loopLog' = LogSetState(LogCall(log, "converted"))
       ELSE /\ display' = shown
            /\ UNCHANGED lastFrameTimeRef
            /\ loopLog' = LogCall(log, "failed")

\* a convertVideoFrame call in which the host raises an error from
\* getImageData (line 204), after the frame is drawn
Thrown(call) == [call EXCEPT !.outcome = "threw", !.result = [ascii |-> <<>>]]

OnHost(call, hostFails) == IF hostFails THEN Thrown(call) ELSE call

\* animate() with the test of isPaused of lines 49-52 left out
animateMutNoPause(rest, shown, log, hostFails) ==
  /\ Schedule(rest)
  /\ IF ~video.attached \/ converter.state # "constructed"
       THEN /\ loopLog' = LogRun(log, "idle")
            /\ display' = shown
            /\ UNCHANGED <<lastFrameTimeRef, converter, convCall>>
     ELSE IF ~ShouldConvert(clock - lastFrameTimeRef, settingsRef.fpsLimit, video)
       THEN /\ loopLog' = LogRun(log, "skipped")
            /\ display' = shown
            /\ UNCHANGED <<lastFrameTimeRef, converter, convCall>>
     ELSE animateConvert(shown, log,
                         OnHost(CallOn(converter.canvas, CameraFrame(video),
                                       settingsRef.cols,
                                       MirrorRows(video, settingsRef.cols),
                                       settingsRef.colorMode), hostFails))

\* animate(), lines 39-77, called with rest the requests pending at the
\* call, and the display and log as the caller leaves them; hostFails is
\* whether the host raises an error in the conversion, if there is one
animate(rest, shown, log, hostFails) ==
  /\ Schedule(rest)
  /\ IF ~video.attached \/ converter.state # "constructed"
       THEN /\ loopLog' = LogRun(log, "idle")
            /\ display' = shown
            /\ UNCHANGED <<lastFrameTimeRef, converter, convCall>>
     ELSE IF settingsRef.isPaused
       THEN /\ loopLog' = LogRun(log, "paused")
            /\ display' = shown
            /\ UNCHANGED <<lastFrameTimeRef, converter, convCall>>
     ELSE IF ~ShouldConvert(clock - lastFrameTimeRef, settingsRef.fpsLimit, video)
       THEN /\ loopLog' = LogRun(log, "skipped")
            /\ display' = shown
            /\ UNCHANGED <<lastFrameTimeRef, converter, convCall>>
     ELSE animateConvert(shown, log,
                         OnHost(CallOn(converter.canvas, CameraFrame(video),
                                       settingsRef.cols,
                                       MirrorRows(video, settingsRef.cols),
                                       settingsRef.colorMode), hostFails))

\* the host runs the animation frame request id
RunAnimationFrame(id, hostFails) ==
  /\ id \in rafPending
  /\ animate(rafPending \ {id}, display, loopLog, hostFails)
  /\ UNCHANGED <<libraryVars, asciiMirrorVars, lumVars, controlVars, hostContext, mounted, clock,
                 settingsRef, video, cameraRequests>>

\* time passes
Tick ==
  /\ clock + TickMs <= MountTime + MaxTicks * TickMs
  /\ clock' = clock + TickMs
  /\ UNCHANGED <<libraryVars, asciiMirrorVars, lumVars, controlVars, converterVars, mounted,
                 lastFrameTimeRef, animationFrameRef, rafPending,
                 settingsRef, video, cameraRequests, display, loopLog>>

\* updateSettings, lines 140-147, from the controls of a mounted component
UpdateSettings(fpsLimit, isPaused) ==
  /\ mounted
  /\ settingsRef' = [settingsRef EXCEPT !.fpsLimit = fpsLimit,
                                        !.isPaused = isPaused]
  /\ settingsRef' # settingsRef
  /\ UNCHANGED <<libraryVars, asciiMirrorVars, lumVars, controlVars, converterVars, mounted, clock,
                 lastFrameTimeRef, animationFrameRef, rafPending,
                 video, cameraRequests, display, loopLog>>

\* startCamera up to the await of line 113, from the Start Camera button,
\* pressed when the camera was denied: no request is pending and the video
\* has no stream
StartCamera ==
  /\ mounted
  /\ cameraRequests = 0
  /\ ~video.srcObject
  /\ cameraRequests' = cameraRequests + 1
  /\ display' = SetStatus(display, Status("Requesting camera..."))
  /\ loopLog' = LogSetStatus(loopLog)
  /\ UNCHANGED <<libraryVars, asciiMirrorVars, lumVars, controlVars, converterVars, mounted, clock,
                 lastFrameTimeRef, animationFrameRef, rafPending,
                 settingsRef, video>>

\* getUserMedia resolves: startCamera, lines 117-130
CameraGranted ==
  /\ cameraRequests > 0
  /\ cameraRequests' = cameraRequests - 1
  /\ display' = SetStatus(display, Status("Camera access granted"))
  /\ loopLog' = LogSetStatus(loopLog)
  /\ video' = IF video.attached
                THEN [video EXCEPT !.srcObject = TRUE,
                                   !.onloadedmetadata = TRUE,
                                   !.readyState = 0,
                                   !.videoWidth = 0,
                                   !.videoHeight = 0,
                                   !.playPending = TRUE]
                ELSE video
  /\ UNCHANGED <<libraryVars, asciiMirrorVars, lumVars, controlVars, converterVars, mounted, clock,
                 lastFrameTimeRef, animationFrameRef, rafPending,
                 settingsRef>>

\* getUserMedia rejects: startCamera, lines 133-136
CameraDenied ==
  /\ cameraRequests > 0
  /\ cameraRequests' = cameraRequests - 1
  /\ display' = SetStatus(display, Status("Error"))
  /\ loopLog' = LogSetStatus(loopLog)
  /\ UNCHANGED <<libraryVars, asciiMirrorVars, lumVars, controlVars, converterVars, mounted, clock,
                 lastFrameTimeRef, animationFrameRef, rafPending,
                 settingsRef, video>>

\* the video element fires loadedmetadata: the handler of lines 123-128,
\* which calls animate()
LoadedMetadata ==
  /\ video.srcObject
  /\ video.readyState = 0
  /\ video' = [video EXCEPT !.readyState = 1,
                            !.videoWidth = CameraSize.width,
                            !.videoHeight = CameraSize.height]
  /\ IF video.onloadedmetadata
       THEN animate(rafPending,
                    SetStatus(display, [text |-> "Video ready",
                                        width |-> CameraSize.width,
                                        height |-> CameraSize.height]),
                    LogSetStatus(loopLog), FALSE)
       ELSE UNCHANGED <<lastFrameTimeRef, animationFrameRef, rafPending,
                        display, loopLog, converter, convCall>>
  /\ UNCHANGED <<libraryVars, asciiMirrorVars, lumVars, controlVars, hostContext, mounted, clock,
                 settingsRef, cameraRequests>>

\* playback starts: the video has a current frame, and play() of line 130
\* resolves
VideoPlays ==
  /\ video.readyState = 1
  /\ video' = [video EXCEPT !.readyState = 4, !.playPending = FALSE]
  /\ display' = IF video.playPending
                  THEN SetStatus(display, Status("Video playing"))
                  ELSE display
  /\ loopLog' = IF video.playPending THEN LogSetStatus(loopLog) ELSE loopLog
  /\ UNCHANGED <<libraryVars, asciiMirrorVars, lumVars, controlVars, converterVars, mounted, clock,
                 lastFrameTimeRef, animationFrameRef, rafPending,
                 settingsRef, cameraRequests>>

\* the component unmounts: the cleanup of lines 92-97, and React detaches
\* videoRef
Unmount ==
  /\ mounted
  /\ mounted' = FALSE
  /\ IF animationFrameRef # 0
       THEN /\ rafPending' = rafPending \ {animationFrameRef}
            /\ animationFrameRef' = 0
       ELSE UNCHANGED <<rafPending, animationFrameRef>>
  /\ video' = [video EXCEPT !.attached = FALSE]
  /\ UNCHANGED <<libraryVars, asciiMirrorVars, lumVars, controlVars, converterVars, clock,
                 lastFrameTimeRef, settingsRef, cameraRequests,
                 display, loopLog>>

NextMirror ==
  \/ \E id \in 1..MaxRafId, hostFails \in BOOLEAN :
       RunAnimationFrame(id, hostFails)
  \/ Tick
  \/ \E fpsLimit \in FpsInputs, isPaused \in BOOLEAN :
       UpdateSettings(fpsLimit, isPaused)
  \/ StartCamera
  \/ CameraGranted
  \/ CameraDenied
  \/ LoadedMetadata
  \/ VideoPlays
  \/ Unmount

SpecMirror == InitMirror /\ [][NextMirror]_vars

\* ------------------------------------------------------------------------
\* Claims about the AsciiConverter (SpecConverter)
\* ------------------------------------------------------------------------
ConvCalled == convCall.method # "none"

\* the pixel dimensions of the source of the last call, as the method reads
\* them
SourceSize(source) ==
  IF source.kind = "image"
    THEN <<OrElse(source.width, source.attrWidth),
           OrElse(source.height, source.attrHeight)>>
    ELSE <<source.width, source.height>>

\* C16: in any sequence of convertVideoFrame, convertImage and
\* convertImageBitmap calls on one converter, a call assigns the canvas's
\* width and height only if its source's pixel dimensions differ from the
\* canvas's dimensions before the call; a call whose source has the canvas's
\* dimensions assigns neither.
C16_CanvasAssignedOnlyOnSizeChange ==
  ConvCalled =>
    (convCall.assigned <=> SourceSize(convCall.source) # convCall.canvasBefore)

\* C17: the result of a conversion call depends only on the call's source
\* pixels and arguments, never on the calls made before it on the same
\* converter: a converter with any call history returns what a converter
\* just constructed returns for the same call.
C17_ResultIndependentOfHistory ==
  ConvCalled =>
    /\ convCall.outcome = convCall.freshOutcome
    /\ convCall.result = convCall.freshResult

\* C18: constructing an AsciiConverter throws when the host gives no 2D
\* context for the canvas, and succeeds when it gives one; so a constructed
\* converter, and every conversion call, has a context.
C18_ConstructionThrowsIffNoContext ==
  /\ converter.state = "threw" => ~hostContext
  /\ converter.state = "constructed" => hostContext
  /\ ConvCalled => converter.state = "constructed" /\ hostContext

C18_Witness == converter.state = "threw" /\ ~hostContext /\ ~ConvCalled

\* ------------------------------------------------------------------------
\* Claims about the frame loop of SimpleAsciiMirror (SpecMirror)
\* ------------------------------------------------------------------------
\* C19 as stated: whatever the animation callbacks, settings changes and
\* camera events, two consecutive convertVideoFrame calls of animate are at
\* least 1000/fpsLimit ms apart, fpsLimit being the setting read at the
\* later of the two.
C19_ConsecutiveCallsThrottled ==
  loopLog.prevCall >= 0 =>
    (loopLog.lastCall - loopLog.prevCall) * loopLog.fpsLimit >= 1000

\* C19: a convertVideoFrame call of animate comes at least 1000/fpsLimit ms
\* after the last call before it that returned (the previous conversion),
\* fpsLimit being the setting read at the later call; a run of animate that
\* comes sooner skips the conversion.  A call that threw does not count.
C19_CallsThrottledAfterConversion ==
  loopLog.prevDone >= 0 =>
    (loopLog.lastCall - loopLog.prevDone) * loopLog.fpsLimit >= 1000

C19_Witness ==
  /\ loopLog.prevDone >= 0
  /\ loopLog.lastRun = "skipped"
  /\ (clock - loopLog.lastDone) * settingsRef.fpsLimit < 1000

\* C20: once the component has unmounted, no request for an animate callback
\* is pending, and animate has not run, converted a frame or set the ascii
\* and colors state since, whatever happened before the unmount
\* (startCamera, loadedmetadata).
C20_UnmountStopsLoop ==
  ~mounted =>
    /\ rafPending = {}
    /\ ~loopLog.sinceUnmount.animate
    /\ ~loopLog.sinceUnmount.convert
    /\ ~loopLog.sinceUnmount.setState

\* ------------------------------------------------------------------------
\* src/src/components/SimpleAsciiMirror.tsx: the hotkeys and the columns
\* slider
\* ------------------------------------------------------------------------
Max(a, b) == IF a >= b THEN a ELSE b
Min(a, b) == IF a <= b THEN a ELSE b

\* the hotkeys that change settings, lines 188-208
SettingKeys == {" ", "[", "]", "i", "c"}

\* the values of the columns slider, lines 237-244
SliderInputs == 40..160

\* the updates handleKeyDown passes to updateSettings, with the clamps of
\* lines 195 and 199 left out
KeyUpdatesMutNoClamp(s, key) ==
  CASE key = " " -> [isPaused |-> ~s.isPaused]
    [] key = "[" -> [cols |-> s.cols - 5]
    [] key = "]" -> [cols |-> s.cols + 5]
    [] key = "i" -> [invert |-> ~s.invert]
    [] key = "c" -> [colorMode |-> ~s.colorMode]

\* the updates handleKeyDown passes to updateSettings for a key, lines
\* 188-208, s being the settings the handler holds
KeyUpdates(s, key) ==
  CASE key = " " -> [isPaused |-> ~s.isPaused]
    [] key = "[" -> [cols |-> Max(40, s.cols - 5)]
    [] key = "]" -> [cols |-> Min(160, s.cols + 5)]
    [] key = "i" -> [invert |-> ~s.invert]
    [] key = "c" -> [colorMode |-> ~s.colorMode]

\* setSettings(prev => ({ ...prev, ...updates })), line 141
MergeSettings(prev, updates) ==
  [k \in DOMAIN prev |-> IF k \in DOMAIN updates THEN updates[k] ELSE prev[k]]

InitControls ==
  /\ LibraryIdle
  /\ AsciiMirrorIdle
  /\ LumIdle
  /\ ConverterIdle
  /\ MirrorIdle
  /\ settings = DefaultSettings
  /\ lastInput = NoInput

\* a keydown event of a hotkey: handleKeyDown, lines 182-214.  The handler
\* is registered again after every render (line 218), so it holds the
\* settings of the last render.
KeyDown(key) ==
  /\ settings' = MergeSettings(settings, KeyUpdates(settings, key))
  /\ lastInput' = [kind |-> "key", key |-> key, colsBefore |-> settings.cols]
  /\ UNCHANGED <<libraryVars, asciiMirrorVars, lumVars, converterVars, mirrorVars>>

\* the columns slider moved to value: onChange, line 242
ColumnsSlider(value) ==
  /\ value # settings.cols
  /\ settings' = MergeSettings(settings, [cols |-> value])
  /\ lastInput' = [kind |-> "slider", key |-> "", colsBefore |-> 0]
  /\ UNCHANGED <<libraryVars, asciiMirrorVars, lumVars, converterVars, mirrorVars>>

NextControls ==
  \/ \E key \in SettingKeys : KeyDown(key)
  \/ \E value \in SliderInputs : ColumnsSlider(value)

SpecControls == InitControls /\ [][NextControls]_vars

\* ------------------------------------------------------------------------
\* Claims about the controls of SimpleAsciiMirror (SpecControls)
\* ------------------------------------------------------------------------
\* C21: the '[' key sets cols to max(40, cols - 5) and the ']' key sets cols
\* to min(160, cols + 5), and from cols = 80 every sequence of '[' and ']'
\* key presses and slider changes leaves cols within 40..160.
C21_ColsKeysAndRange ==
  /\ settings.cols \in 40..160
  /\ lastInput.kind = "key" /\ lastInput.key = "[" =>
       settings.cols = Max(40, lastInput.colsBefore - 5)
  /\ lastInput.kind = "key" /\ lastInput.key = "]" =>
       settings.cols = Min(160, lastInput.colsBefore + 5)

C21_Witness ==
  /\ lastInput.kind = "key"
  /\ lastInput.key = "["
  /\ lastInput.colsBefore = 42
  /\ settings.cols = 40

\* ------------------------------------------------------------------------
\* More claims about the frame loop of SimpleAsciiMirror (SpecMirror)
\* ------------------------------------------------------------------------
\* a run of animate now enters the try block of lines 59-73
EntersTry ==
  /\ video.attached
  /\ converter.state = "constructed"
  /\ ~settingsRef.isPaused
  /\ ShouldConvert(clock - lastFrameTimeRef, settingsRef.fpsLimit, video)

\* C22: when the conversion throws inside an animate callback, the callback
\* leaves ascii, colors and the last-conversion time as they were and still
\* requests the next animation frame.
C22_ThrowIsCaught ==
  [][\A id \in 1..MaxRafId :
       (loopLog'.lastRun = "failed" /\ EntersTry /\ RunAnimationFrame(id, TRUE)) =>
         /\ display' = display
         /\ lastFrameTimeRef' = lastFrameTimeRef
         /\ animationFrameRef' # 0
         /\ animationFrameRef' \in rafPending']_vars

C22_Witness ==
  /\ loopLog.lastRun = "failed"
  /\ animationFrameRef \in rafPending
  /\ loopLog.lastCall = clock
  /\ lastFrameTimeRef < clock

\* C27: in SimpleAsciiMirror, while it is mounted, at most one animate
\* callback is pending, and it is the one whose id animationFrameRef holds.
C27_SingleLoop ==
  mounted => /\ Cardinality(rafPending) <= 1
             /\ rafPending \subseteq {animationFrameRef}

\* C28: an animate callback that runs while isPaused is set converts no
\* frame: it makes no convertVideoFrame call, leaves ascii, colors, the
\* canvas and the time of the last conversion as they were, and requests the
\* next frame.  The animate() call of the loadedmetadata handler converts
\* nothing either while isPaused is set.
C28_PausedConvertsNothing ==
  [][/\ \A id \in 1..MaxRafId, hostFails \in BOOLEAN :
          (settingsRef.isPaused /\ RunAnimationFrame(id, hostFails)) =>
            /\ loopLog'.lastRun \in {"paused", "idle"}
            /\ loopLog'.lastCall = loopLog.lastCall
            /\ loopLog'.lastDone = loopLog.lastDone
            /\ display' = display
            /\ converter' = converter
            /\ lastFrameTimeRef' = lastFrameTimeRef
            /\ animationFrameRef' \in rafPending'
     /\ (settingsRef.isPaused /\ LoadedMetadata) =>
            /\ loopLog'.lastRun \in {"paused", "idle"}
            /\ display'.ascii = display.ascii
            /\ display'.colors = display.colors
            /\ converter' = converter
            /\ lastFrameTimeRef' = lastFrameTimeRef
            /\ animationFrameRef' \in rafPending']_vars

\* a callback has run while paused, on a video whose frame would have been
\* converted, and the next frame is requested
C28_Witness ==
  /\ settingsRef.isPaused
  /\ loopLog.lastRun = "paused"
  /\ ShouldConvert(clock - lastFrameTimeRef, settingsRef.fpsLimit, video)
  /\ animationFrameRef \in rafPending

\* ------------------------------------------------------------------------
\* Claims about the cells of imageDataToAscii (checked under SpecAscii)
\* ------------------------------------------------------------------------
\* the cell that the call passed at grid position (row, col)
CellAt(row, col) == asciiCall.cells[row + 1][col + 1]

GridRows == 0..(asciiArgs.rows - 1)
GridCols == 0..(asciiArgs.cols - 1)

\* the call has returned for a grid that is no finer than the raster
GridWithinRaster ==
  /\ Converted
  /\ 1 <= asciiArgs.cols /\ asciiArgs.cols <= asciiArgs.imageData.width
  /\ 1 <= asciiArgs.rows /\ asciiArgs.rows <= asciiArgs.imageData.height

CellW(row, col) == CellAt(row, col).endX - CellAt(row, col).startX
CellH(row, col) == CellAt(row, col).endY - CellAt(row, col).startY

\* the widths of any two cells differ by at most one pixel, and so do the
\* heights
CellSizesDifferByOne ==
  GridWithinRaster =>
    \A r1 \in GridRows, r2 \in GridRows, c1 \in GridCols, c2 \in GridCols :
      /\ CellW(r1, c1) - CellW(r2, c2) \in {-1, 0, 1}
      /\ CellH(r1, c1) - CellH(r2, c2) \in {-1, 0, 1}

\* every cell contains at least one pixel
CellsHavePixels ==
  GridWithinRaster =>
    \A row \in GridRows, col \in GridCols : CellAt(row, col).pixelCount >= 1

\* C23: for 1 <= columns <= width and 1 <= rows <= height the rectangle of
\* cell (r, c) is [floor(c*width/columns), floor((c+1)*width/columns)) x
\* [floor(r*height/rows), floor((r+1)*height/rows)), the quotients being
\* exact, and the widths of any two cells differ by at most one pixel, as do
\* the heights.
C23_CellRectangles ==
  /\ GridWithinRaster =>
       \A row \in GridRows, col \in GridCols :
         /\ CellAt(row, col).startX =
              (col * asciiArgs.imageData.width) \div asciiArgs.cols
         /\ CellAt(row, col).endX =
              ((col + 1) * asciiArgs.imageData.width) \div asciiArgs.cols
         /\ CellAt(row, col).startY =
              (row * asciiArgs.imageData.height) \div asciiArgs.rows
         /\ CellAt(row, col).endY =
              ((row + 1) * asciiArgs.imageData.height) \div asciiArgs.rows
  /\ CellSizesDifferByOne

\* C24: for 1 <= columns <= width and 1 <= rows <= height the cells
\* partition the raster: every pixel is accumulated into exactly one cell,
\* and every cell contains at least one pixel.
C24_CellsPartitionRaster ==
  /\ GridWithinRaster =>
       \A x \in 0..(asciiArgs.imageData.width - 1),
          y \in 0..(asciiArgs.imageData.height - 1) :
         Cardinality({rc \in GridRows \X GridCols :
                        /\ CellAt(rc[1], rc[2]).startX <= x
                        /\ x < CellAt(rc[1], rc[2]).endX
                        /\ CellAt(rc[1], rc[2]).startY <= y
                        /\ y < CellAt(rc[1], rc[2]).endY}) = 1
  /\ CellsHavePixels

\* C25: for positive columns and rows, also above the raster's width and
\* height, every pixel that imageDataToAscii visits has 0 <= x < width and
\* 0 <= y < height, and every channel is read at an index below
\* width * height * 4, inside the buffer.
C25_ReadsInsideRaster ==
  (Converted /\ asciiArgs.cols >= 1 /\ asciiArgs.rows >= 1) =>
    \A row \in GridRows, col \in GridCols :
      /\ CellAt(row, col).pixelCount > 0 =>
           /\ 0 <= CellAt(row, col).startX
           /\ CellAt(row, col).endX <= asciiArgs.imageData.width
           /\ 0 <= CellAt(row, col).startY
           /\ CellAt(row, col).endY <= asciiArgs.imageData.height
      /\ \A k \in DOMAIN CellAt(row, col).index :
           /\ 0 <= CellAt(row, col).index[k]
           /\ CellAt(row, col).index[k] + 2
                < asciiArgs.imageData.width * asciiArgs.imageData.height * 4
           /\ CellAt(row, col).index[k] + 2 < Len(asciiArgs.imageData.data)

\* C25 witness: 49 columns were asked of a raster 2 pixels wide, and a cell
\* of the call has read a pixel.
C25_Witness ==
  /\ Converted
  /\ asciiArgs.cols > asciiArgs.imageData.width
  /\ \E row \in GridRows, col \in GridCols : CellAt(row, col).pixelCount > 0

\* the mean of the channel off over the pixels of the cell
CellMean(cell, off) ==
  NumDiv(Num(SumChannel(asciiArgs.imageData.data, cell.index, off)),
         Num(cell.pixelCount))

IsTableIndex(b) ==
  /\ IsFinite(b)
  /\ b = Num(MathFloor(b))
  /\ MathFloor(b) \in 0..255

\* C26: for every cell with pixels the luminance that line 140 computes
\* from the means of its channels is an integer in 0..255, and the glyph
\* looked up with it is an entry of the table, never undefined.
C26_BrightnessIsTableIndex ==
  Converted =>
    \A row \in GridRows, col \in GridCols :
      CellAt(row, col).pixelCount > 0 =>
        /\ IsTableIndex(CellAt(row, col).brightness)
        /\ CellAt(row, col).char # "undefined"
        /\ CellAt(row, col).char =
             lutCall[asciiArgs.invert].lut[MathFloor(CellAt(row, col).brightness)]

\* C26 witness: a cell over a black and a white pixel, whose channel means
\* are 127.5, has got the glyph of a brightness in 0..255.
C26_Witness ==
  /\ Converted
  /\ asciiArgs.imageData = PixelRow(<<Black, White>>)
  /\ CellAt(0, 0).pixelCount = 2
  /\ CellMean(CellAt(0, 0), 0) = NumDiv(Num(255), Num(2))
  /\ IsTableIndex(CellAt(0, 0).brightness)

\* ------------------------------------------------------------------------
\* An AsciiMirror component (src/unnamed/part_003), mounted, with its
\* camera, its buttons and the settings its parent passes
\* ------------------------------------------------------------------------
\* the values of settings.cols tried (scaled as InitialDimensions is): the
\* camera's grid has 2 rows for 5 columns and 3 rows for 6
MirrorColsInputs == {5, 6}

\* the images uploaded, by naturalWidth and naturalHeight: the grid of the
\* 2 x 1 image has one row, that of the 4 x 1 image none
ImageSizes == {<<2, 1>>, <<4, 1>>}

\* the grid of calculateGridDimensions(videoWidth, videoHeight, cols)
GridFor(videoWidth, videoHeight, cols) ==
  [cols |-> cols,
   rows |-> MathFloor(calculateGridDimensions(videoWidth, videoHeight, cols).rows)]

\* the grids of the camera's video, by cols
CameraGrids ==
  [cols \in MirrorColsInputs |->
     GridFor(CameraSize.width, CameraSize.height, cols)]

\* the video element as the source of convertVideoFrame: an opaque frame
\* when the element has one (readyState >= 2), nothing to draw before
VideoFrame(v) ==
  Source("video",
         createMockImageData(v.videoWidth, v.videoHeight,
                             IF v.readyState >= 2 THEN White ELSE Clear),
         <<0, 0>>)

InitAsciiMirror ==
  /\ LibraryIdle
  /\ LumIdle
  /\ MirrorIdle
  /\ ControlsIdle
  /\ hostContext = TRUE
  /\ converter = [state |-> AsciiConverter(TRUE).outcome,
                  canvas |-> AsciiConverter(TRUE).canvas]
  /\ convCall = NoConvCall
  /\ props = InitialProps
  /\ ascii = <<>>
  /\ colors = <<>>
  /\ isWebcamAvailable = TRUE
  /\ isInitialized = FALSE
  /\ dimensions = InitialDimensions
  /\ streamRef = FALSE
  /\ videoElement = NoVideoElement
  /\ mediaRequests = 1
  /\ framePending = TRUE

\* what no handler of the AsciiMirror changes
AsciiMirrorFrame ==
  UNCHANGED <<libraryVars, lumVars, controlVars, mirrorVars, hostContext, convCall>>

\* the render after isInitialized has become TRUE mounts the video element
\* of lines 276-283; an element that is rendered stays
Rendered(v) == [v EXCEPT !.rendered = TRUE]

\* initializeWebcam up to the await of line 49, from the mount effect (in
\* Init) or from a Retry button (lines 263-268, 290-295); at most one
\* request is pending
RetryCamera ==
  /\ ~isInitialized \/ ~isWebcamAvailable
  /\ mediaRequests = 0
  /\ mediaRequests' = 1
  /\ UNCHANGED <<props, ascii, colors, isWebcamAvailable, isInitialized,
                 dimensions, streamRef, videoElement, framePending, converter>>
  /\ AsciiMirrorFrame

\* getUserMedia resolves: lines 56-82.  Assigning srcObject makes the
\* element load the stream.
MediaGranted ==
  /\ mediaRequests > 0
  /\ mediaRequests' = mediaRequests - 1
  /\ streamRef' = TRUE
  /\ videoElement' = IF videoElement.rendered
                       THEN [videoElement EXCEPT !.srcObject = TRUE,
                                                 !.onloadedmetadata = TRUE,
                                                 !.loading = TRUE,
                                                 !.readyState = 0,
                                                 !.videoWidth = 0,
                                                 !.videoHeight = 0]
                       ELSE videoElement
  /\ UNCHANGED <<props, ascii, colors, isWebcamAvailable, isInitialized,
                 dimensions, framePending, converter>>
  /\ AsciiMirrorFrame

\* getUserMedia rejects: lines 83-88
MediaDenied ==
  /\ mediaRequests > 0
  /\ mediaRequests' = mediaRequests - 1
  /\ isWebcamAvailable' = FALSE
  /\ isInitialized' = TRUE
  /\ videoElement' = Rendered(videoElement)
  /\ UNCHANGED <<props, ascii, colors, dimensions, streamRef, framePending,
                 converter>>
  /\ AsciiMirrorFrame

\* the video element fires loadedmetadata: handleVideoLoadedMetadata (lines
\* 92-98), the listener React attached when it created the element, then
\* the onloadedmetadata handler of lines 63-75, set later; the dimensions
\* set last are the state after the event
VideoLoadedMetadata ==
  /\ videoElement.rendered
  /\ videoElement.loading
  /\ videoElement' = [videoElement EXCEPT !.loading = FALSE,
                                          !.readyState = 1,
                                          !.videoWidth = CameraSize.width,
                                          !.videoHeight = CameraSize.height]
  /\ IF videoElement.onloadedmetadata
       THEN /\ dimensions' = CameraGrids[InitialDimensions.cols]
            /\ isWebcamAvailable' = TRUE
            /\ isInitialized' = TRUE
       ELSE /\ dimensions' = CameraGrids[props.cols]
            /\ UNCHANGED <<isWebcamAvailable, isInitialized>>
  /\ UNCHANGED <<props, ascii, colors, streamRef, mediaRequests, framePending,
                 converter>>
  /\ AsciiMirrorFrame

\* the video element has its first frame
VideoHasFrame ==
  /\ videoElement.rendered
  /\ videoElement.readyState = 1
  /\ videoElement' = [videoElement EXCEPT !.readyState = 4]
  /\ UNCHANGED <<props, ascii, colors, isWebcamAvailable, isInitialized,
                 dimensions, streamRef, mediaRequests, framePending, converter>>
  /\ AsciiMirrorFrame

\* lines 141-154 of animate: the call has returned or thrown
AnimateCall(call) ==
  /\ converter' = [converter EXCEPT !.canvas = call.canvas]
  /\ IF call.outcome = "returned" /\ Len(call.result.ascii) > 10
       THEN /\ ascii' = call.result.ascii
            /\ colors' = IF "colors" \in DOMAIN call.result
                           THEN call.result.colors ELSE colors
       ELSE UNCHANGED <<ascii, colors>>

\* the host runs the animation frame request: animate, lines 129-161, with
\* the settings and dimensions of the last render (the effect of lines
\* 164-179 replaces the request when they change)
Animate ==
  /\ framePending
  /\ IF /\ videoElement.rendered
        /\ converter.state = "constructed"
        /\ ~props.isPaused
        /\ videoElement.readyState >= 2
        /\ videoElement.videoWidth > 0
        /\ videoElement.videoHeight > 0
       THEN AnimateCall(CallOn(converter.canvas, VideoFrame(videoElement),
                               dimensions.cols, dimensions.rows,
                               props.colorMode))
       ELSE UNCHANGED <<ascii, colors, converter>>
  /\ UNCHANGED <<props, isWebcamAvailable, isInitialized, dimensions, streamRef,
                 videoElement, mediaRequests, framePending>>
  /\ AsciiMirrorFrame

\* the parent passes new settings, with another cols or colorMode: the
\* render, the effect of lines 182-188 when cols has changed, and the
\* effect of lines 164-179, which cancels the pending request and makes a
\* new one unless isPaused
SettingsChange(cols, colorMode) ==
  /\ props' = [props EXCEPT !.cols = cols, !.colorMode = colorMode]
  /\ props' # props
  /\ dimensions' = IF /\ cols # props.cols
                      /\ videoElement.rendered
                      /\ videoElement.videoWidth > 0
                     THEN GridFor(videoElement.videoWidth,
                                  videoElement.videoHeight, cols)
                     ELSE dimensions
  /\ framePending' = ~props.isPaused
  /\ UNCHANGED <<ascii, colors, isWebcamAvailable, isInitialized, streamRef,
                 videoElement, mediaRequests, converter>>
  /\ AsciiMirrorFrame

\* lines 107-122 of img.onload for the grid of the image: the call has
\* returned, or has thrown and ends the handler
ImageCall(call) ==
  /\ converter' = [converter EXCEPT !.canvas = call.canvas]
  /\ IF call.outcome = "returned"
       THEN /\ ascii' = call.result.ascii
            /\ colors' = IF "colors" \in DOMAIN call.result
                           THEN call.result.colors ELSE colors
       ELSE UNCHANGED <<ascii, colors>>

ImageLoaded(size, grid) ==
  /\ dimensions' = grid
  /\ ImageCall(CallOn(converter.canvas,
                      Source("image", createMockImageData(size[1], size[2], White),
                             <<0, 0>>),
                      grid.cols, grid.rows, props.colorMode))

\* an image is chosen in the file input of lines 297-303 and loads:
\* handleImageUpload, lines 101-126, with the settings of the render in
\* which the file was chosen
UploadImage(size) ==
  /\ isInitialized
  /\ ~isWebcamAvailable
  /\ converter.state = "constructed"
  /\ ImageLoaded(size, GridFor(size[1], size[2], props.cols))
  /\ UNCHANGED <<props, isWebcamAvailable, isInitialized, streamRef,
                 videoElement, mediaRequests, framePending>>
  /\ AsciiMirrorFrame

\* lines 386-396 of the Force Process Frame button: the call has returned
\* or thrown
ForceCall(call) ==
  /\ converter' = [converter EXCEPT !.canvas = call.canvas]
  /\ ascii' = IF call.outcome = "returned" /\ call.result.ascii # <<>>
                THEN call.result.ascii ELSE ascii

\* the Force Process Frame button, lines 379-406
ForceProcessFrame ==
  /\ isInitialized
  /\ isWebcamAvailable
  /\ ascii = <<>>
  /\ IF videoElement.rendered /\ converter.state = "constructed"
       THEN ForceCall(CallOn(converter.canvas, VideoFrame(videoElement),
                             dimensions.cols, dimensions.rows, props.colorMode))
       ELSE UNCHANGED <<ascii, converter>>
  /\ UNCHANGED <<props, colors, isWebcamAvailable, isInitialized, dimensions,
                 streamRef, videoElement, mediaRequests, framePending>>
  /\ AsciiMirrorFrame

\* the Force Activate Camera button, lines 348-377; video.load() makes the
\* element load its stream again
ForceActivateCamera ==
  /\ isInitialized
  /\ ~isWebcamAvailable
  /\ streamRef
  /\ IF ~videoElement.rendered
       THEN UNCHANGED <<isWebcamAvailable, dimensions, videoElement>>
     ELSE IF videoElement.videoWidth > 0 /\ videoElement.videoHeight > 0
       THEN /\ isWebcamAvailable' = TRUE
            /\ dimensions' = GridFor(videoElement.videoWidth,
                                     videoElement.videoHeight, props.cols)
            /\ UNCHANGED videoElement
     ELSE IF videoElement.videoWidth = 0
       THEN /\ videoElement' = [videoElement EXCEPT
                                  !.loading = videoElement.srcObject,
                                  !.readyState = 0,
                                  !.videoWidth = 0,
                                  !.videoHeight = 0]
            /\ UNCHANGED <<isWebcamAvailable, dimensions>>
       ELSE UNCHANGED <<isWebcamAvailable, dimensions, videoElement>>
  /\ UNCHANGED <<props, ascii, colors, isInitialized, streamRef, mediaRequests,
                 framePending, converter>>
  /\ AsciiMirrorFrame

NextAsciiMirror ==
  \/ RetryCamera
  \/ MediaGranted
  \/ MediaDenied
  \/ VideoLoadedMetadata
  \/ VideoHasFrame
  \/ Animate
  \/ \E cols \in MirrorColsInputs, colorMode \in BOOLEAN :
       SettingsChange(cols, colorMode)
  \/ \E size \in ImageSizes : UploadImage(size)
  \/ ForceProcessFrame
  \/ ForceActivateCamera

SpecAsciiMirror == InitAsciiMirror /\ [][NextAsciiMirror]_vars

\* The host settles every getUserMedia promise and delivers loadedmetadata
\* and the first frame of a stream that loads; what the user and the parent
\* do is left to them, and the animation frames play no part in the
\* initialization.
SpecAsciiMirrorLive ==
  /\ SpecAsciiMirror
  /\ WF_vars(MediaGranted \/ MediaDenied)
  /\ WF_vars(VideoLoadedMetadata)
  /\ WF_vars(VideoHasFrame)

\* ------------------------------------------------------------------------
\* Claims about the AsciiMirror component
\* ------------------------------------------------------------------------
\* the rows of the ascii text held: its line terminators
AsciiRows == Cardinality({i \in DOMAIN ascii : ascii[i] = "\n"})

\* C29: in the AsciiMirror, once getUserMedia has resolved with a stream the
\* component eventually leaves the 'Initializing camera...' state:
\* isInitialized becomes true.
C29_StreamLeadsToInitialized == streamRef ~> isInitialized

\* C30: in the AsciiMirror, whenever colors is not empty it has exactly one
\* entry per row of the ascii text held.
C30_ColorsMatchAsciiRows == colors # <<>> => Len(colors) = AsciiRows

====
